---- MODULE Spec2Model ----
(***************************************************************************)
(* routex: build-time redirect generator for VitePress.                    *)
(*                                                                         *)
(* The model covers the RedirectValidator (validator.ts, the version that  *)
(* probes the file system with Promise.all), the plugin object returned by *)
(* routex() (routex.ts), RedirectGenerator.generateAllRedirectFiles with   *)
(* its per-rule callbacks (generator.ts) and Template (template.ts).       *)
(*                                                                         *)
(* Strings are sequences of one-character strings, so that startsWith,     *)
(* slice(1), concatenation and equality are computed, not assumed.  The    *)
(* file-name suffixes ".md", ".html", "index.md" and "index.html" are      *)
(* written as one element each; no modelled path contains a part of one.   *)
(* A redirect table is the sequence of its rules in Object.keys order,     *)
(* with pairwise distinct sources.                                         *)
(***************************************************************************)
EXTENDS Integers, Sequences, FiniteSets, TLC

VARIABLES
    rules,            \* RedirectMap handed to routex() / RedirectValidator
    options,          \* RedirectOptions
    fs,               \* files that exist under the site source root
    vitepressConfig,  \* RedirectValidator.vitepressConfig: "undefined" | "config"
    pc,               \* position of validate() / of the plugin
    error,            \* the Error validate() has thrown, kind "none" if none
    probes,           \* fs.access calls issued so far, in dispatch order
    warnings,         \* number of Logger.warn calls made by validateDelay
    isSsrBuild,       \* routex(): let isSsrBuild
    vitePressConfig,  \* routex(): let vitePressConfig
    written,          \* fs.writeFile calls made by generateAllRedirectFiles
    generatedAt,      \* history: the values of pc at which generateBundle wrote
    hookCalls,        \* number of hook invocations made by the host so far
    disk,             \* readable template files: absolute path -> content
    genPc,            \* position of generateAllRedirectFiles
    cachedTemplate,   \* Template.cachedTemplate: {} if undefined, else {string}
    tasks,            \* the callbacks of Object.entries(rules).map, by rule
    loads,            \* loadTemplate calls made so far, in call order
    dirs,             \* directories fs.mkdir has created under outDir
    outFiles,         \* files under outDir: path -> content last written
    writes,           \* fs.writeFile calls completed so far, in order
    inflight,         \* the fs.access calls of the check being awaited
    completion,       \* the positions in inflight, in order of completion
    seqPc,            \* position of the sequential validator's validate()
    seqError,         \* the Error it has thrown, kind "none" if none
    seqWarnings,      \* number of Logger.warn calls its validateDelay made
    seqProbes,        \* the fs.access calls it has awaited, in order
    seqItem,          \* its for-of loop: position of the source / destination
    seqFile,          \* its inner loop: position of the candidate file
    seqFound,         \* its conflicts / deadLinks array
    pages,            \* transformIndexHtml calls made, in order: page and result
    redirectConfig,   \* the RedirectConfig handed to normalizeConfig
    normalized,       \* what normalizeConfig returned: {} before the call
    rawPath,          \* the string handed to sanitizePath
    sanitized         \* what sanitizePath returned: {} before the call

generatorVars ==
    <<disk, genPc, cachedTemplate, tasks, loads, dirs, outFiles, writes>>

configVars == <<redirectConfig, normalized>>

sanitizeVars == <<rawPath, sanitized>>

probeVars == <<inflight, completion>>

sequentialVars ==
    <<seqPc, seqError, seqWarnings, seqProbes, seqItem, seqFile, seqFound>>

vars == <<rules, options, fs, vitepressConfig, pc, error, probes, warnings,
          isSsrBuild, vitePressConfig, written, generatedAt, hookCalls,
          pages, generatorVars, configVars, sanitizeVars, probeVars,
          sequentialVars>>

validatorVars == <<pc, error, probes, warnings>>
inputVars == <<rules, options, fs, configVars, sanitizeVars>>
pluginVars ==
    <<isSsrBuild, vitePressConfig, written, generatedAt, hookCalls, pages,
      generatorVars>>

-----------------------------------------------------------------------------
(* Bounds *)

\* rules per table in the tables handed to generateAllRedirectFiles
MaxTasks == 2

\* rules per table in the tables used for the graph checks
MaxChain == 3
\* rules per table in the tables checked against a file system
MaxRules == 2
\* hook invocations the host makes on one plugin object
MaxHookCalls == 3

\* pieces of a string handed to sanitizePath
MaxLen == 7

-----------------------------------------------------------------------------
(* Strings *)

Empty == <<>>
Slash == <<"/">>
PathA == <<"/", "a">>
PathB == <<"/", "b">>
PathC == <<"/", "c">>
PathD == <<"/", "d">>
RelA == <<"a">>
RelB == <<"b">>
PathAHash == <<"/", "a", "#", "h">>
PathAQuery == <<"/", "a", "?", "q">>
ExternalUrl == <<"h", "t", "t", "p", ":", "/", "/", "x">>
Http == <<"h", "t", "t", "p">>

\* String.prototype.startsWith
StartsWith(s, p) ==
    /\ Len(s) >= Len(p)
    /\ SubSeq(s, 1, Len(p)) = p

\* String.prototype.slice(1)
Slice1(s) == IF Len(s) = 0 THEN <<>> ELSE Tail(s)

\* path.join's normalisation of its joined argument, relative to srcDir:
\* runs of "/" collapse to one and the result does not begin with "/".
RECURSIVE Normalize(_)
Normalize(s) ==
    IF Len(s) = 0 THEN <<>>
    ELSE IF Head(s) = "/" /\ (Len(s) = 1 \/ s[2] = "/")
         THEN IF Len(s) = 1 THEN s ELSE Normalize(Tail(s))
         ELSE <<Head(s)>> \o Normalize(Tail(s))

StripLeadingSlash(s) == IF Len(s) > 0 /\ Head(s) = "/" THEN Tail(s) ELSE s

\* path.join(srcDir, a), as a path relative to srcDir
PathJoin1(a) == StripLeadingSlash(Normalize(a))

\* path.join(srcDir, a, b), as a path relative to srcDir
PathJoin2(a, b) ==
    StripLeadingSlash(Normalize(IF Len(a) = 0 THEN b ELSE a \o <<"/">> \o b))

-----------------------------------------------------------------------------
(* Redirect tables *)

\* Object.keys(rules)
Keys(T) == [i \in 1..Len(T) |-> T[i].source]

\* Object.values(rules)
Values(T) == [i \in 1..Len(T) |-> T[i].destination]

KeySet(T) == {T[i].source : i \in 1..Len(T)}

HasKey(T, k) == k \in KeySet(T)

\* rules[k] for a key k of the table
Get(T, k) == T[CHOOSE i \in 1..Len(T) : T[i].source = k].destination

\* the JavaScript truthiness of rules[k]: undefined and "" are falsy
Truthy(T, k) == HasKey(T, k) /\ Get(T, k) # <<>>

TablesOf(K, D, n) ==
    UNION { { t \in [1..k -> [source : K, destination : D]] :
                \A i, j \in 1..k : i # j => t[i].source # t[j].source }
            : k \in 0..n }

-----------------------------------------------------------------------------
(* RedirectValidator: the six checks as functions of the table *)

NoError == [kind |-> "none", offenders |-> <<>>]

\* validateSelfReferences reporting only the first self-referencing source
SelfRefsFirstOnly(T) ==
    LET all == SelectSeq(Keys(T), LAMBDA s : Get(T, s) = s)
    IN  IF Len(all) > 0 THEN <<Head(all)>> ELSE <<>>

\* validateSelfReferences: Object.keys(rules).filter(s => rules[s] === s)
SelfRefs(T) == SelectSeq(Keys(T), LAMBDA s : Get(T, s) = s)

\* detectCircular with one set only: a node is marked visited on entry and
\* a node met again is taken to be explored
DetectCircularOneSet(T, source, st) ==
    LET RECURSIVE Dfs(_, _)
        Dfs(n, s) ==
            IF n \in s.visited THEN [s EXCEPT !.found = FALSE]
            ELSE LET dest == Get(T, n)
                     in1  == [s EXCEPT !.visited = @ \cup {n},
                                       !.entered = Append(@, n)]
                 IN  IF dest # <<>> /\ Truthy(T, dest)
                     THEN Dfs(dest, in1)
                     ELSE [in1 EXCEPT !.found = FALSE]
    IN  Dfs(source, st)

\* detectCircular without its test of visited: a node explored under an
\* earlier key of the loop is explored again
DetectCircularRevisiting(T, source, st) ==
    LET RECURSIVE Dfs(_, _)
        Dfs(n, s) ==
            IF n \in s.visiting THEN [s EXCEPT !.found = TRUE]
            ELSE LET dest == Get(T, n)
                     in1  == [s EXCEPT !.visiting = @ \cup {n},
                                       !.entered = Append(@, n)]
                     sub  == IF dest # <<>> /\ Truthy(T, dest)
                             THEN Dfs(dest, in1)
                             ELSE [in1 EXCEPT !.found = FALSE]
                 IN  IF sub.found THEN sub
                     ELSE [sub EXCEPT !.visiting = @ \ {n},
                                      !.visited = @ \cup {n}]
    IN  Dfs(source, st)

\* detectCircular(source), with the two sets it closes over passed in and
\* returned: [found, visiting, visited, entered], entered being the nodes
\* on which visiting.add ran, in order.
RECURSIVE DetectCircular(_, _, _)
DetectCircular(T, source, st) ==
    IF source \in st.visiting THEN [st EXCEPT !.found = TRUE]
    ELSE IF source \in st.visited THEN [st EXCEPT !.found = FALSE]
    ELSE LET dest == Get(T, source)
             in1  == [st EXCEPT !.visiting = @ \cup {source},
                                !.entered = Append(@, source)]
             sub  == IF dest # <<>> /\ Truthy(T, dest)
                     THEN DetectCircular(T, dest, in1)
                     ELSE [in1 EXCEPT !.found = FALSE]
         IN  IF sub.found THEN sub
             ELSE [sub EXCEPT !.visiting = @ \ {source},
                              !.visited = @ \cup {source}]

DfsInit == [found |-> FALSE, visiting |-> {}, visited |-> {}, entered |-> <<>>]

\* the for-of loop of validateCircularRedirects from key i on: the first
\* key whose detectCircular returns true, as [found, source, entered]
RECURSIVE CircularFrom(_, _, _)
CircularFrom(T, i, st) ==
    IF i > Len(T) THEN [found |-> FALSE, source |-> <<>>, entered |-> st.entered]
    ELSE LET r == DetectCircular(T, T[i].source, st)
         IN  IF r.found
             THEN [found |-> TRUE, source |-> T[i].source, entered |-> r.entered]
             ELSE CircularFrom(T, i + 1, r)

Circular(T) == CircularFrom(T, 1, DfsInit)

\* validatePaths testing the destinations before the sources
PathErrorDestinationsFirst(T) ==
    LET bs == SelectSeq(Keys(T), LAMBDA s : ~StartsWith(s, Slash))
        bd == SelectSeq(Values(T),
                        LAMBDA d : ~StartsWith(d, Slash) /\ ~StartsWith(d, Http))
    IN  IF Len(bd) > 0
        THEN [kind |-> "InvalidDestinationPath", offenders |-> <<Head(bd)>>]
        ELSE IF Len(bs) > 0
        THEN [kind |-> "InvalidSourcePath", offenders |-> <<Head(bs)>>]
        ELSE [kind |-> "none", offenders |-> <<>>]

\* validatePaths going through the sources from the last key to the first
BadSourcesLastFirst(T) ==
    LET bad == SelectSeq(Keys(T), LAMBDA s : ~StartsWith(s, Slash))
    IN  [i \in 1..Len(bad) |-> bad[Len(bad) + 1 - i]]

\* validatePaths: both forEach loops throw at their first offender
BadSources(T) == SelectSeq(Keys(T), LAMBDA s : ~StartsWith(s, Slash))

\* validatePaths running its second loop over Object.keys once more
BadDestinationsOverKeys(T) ==
    SelectSeq(Keys(T), LAMBDA d : ~StartsWith(d, Slash) /\ ~StartsWith(d, Http))

BadDestinations(T) ==
    SelectSeq(Values(T), LAMBDA d : ~StartsWith(d, Slash) /\ ~StartsWith(d, Http))

PathError(T) ==
    IF Len(BadSources(T)) > 0
    THEN [kind |-> "InvalidSourcePath", offenders |-> <<Head(BadSources(T))>>]
    ELSE IF Len(BadDestinations(T)) > 0
    THEN [kind |-> "InvalidDestinationPath",
          offenders |-> <<Head(BadDestinations(T))>>]
    ELSE NoError

\* validateDelay warning from a delay of 5 on
DelayWarnsFromFive(opts) == opts.redirectDelay >= 5

\* validateDelay: const delay = redirectDelay || 0; warn when delay > 5
DelayWarns(opts) == opts.redirectDelay > 5

\* validateFileConflicts: possibleFiles of one source
PossibleFiles(source) ==
    << PathJoin1(Slice1(source) \o <<".md">>),
       PathJoin2(Slice1(source), <<"index.md">>),
       PathJoin1(Slice1(source) \o <<".html">>) >>

\* fileChecks: one {source, filePath} per candidate, sources in key order
RECURSIVE FileChecks(_)
FileChecks(T) ==
    IF Len(T) = 0 THEN <<>>
    ELSE [j \in 1..3 |-> [source |-> T[1].source,
                          filePath |-> PossibleFiles(T[1].source)[j]]]
         \o FileChecks(Tail(T))

\* fs.access(filePath).then(() => true).catch(() => false)
Exists(files, filePath) == filePath \in files

\* validateFileConflicts stopping at the first existing file
ConflictsFirstOnly(T, files) ==
    LET all == SelectSeq(FileChecks(T), LAMBDA c : c.filePath \in files)
    IN  IF Len(all) = 0 THEN <<>> ELSE <<all[1]>>

\* results.filter(r => r.exists)
Conflicts(T, files) ==
    SelectSeq(FileChecks(T), LAMBDA c : Exists(files, c.filePath))

\* validateDeadLinks: Object.values(rules).filter(d => !d.startsWith('http'))
InternalDestinations(T) ==
    SelectSeq(Values(T), LAMBDA d : ~StartsWith(d, Http))

\* possibleDestFiles of one destination
PossibleDestFiles(dest) ==
    LET cleanDest == Slice1(dest)
    IN  << PathJoin1(cleanDest \o <<".md">>),
           PathJoin2(cleanDest, <<"index.md">>),
           PathJoin1(cleanDest \o <<".html">>) >>
        \o (IF dest = Slash THEN << PathJoin1(<<"index.md">>) >> ELSE <<>>)

\* (await Promise.all(item.checks)).every(Boolean)
DestExistsEvery(files, dest) ==
    \A j \in 1..Len(PossibleDestFiles(dest)) :
        Exists(files, PossibleDestFiles(dest)[j])

\* (await Promise.all(item.checks)).some(Boolean)
DestExists(files, dest) ==
    \E j \in 1..Len(PossibleDestFiles(dest)) :
        Exists(files, PossibleDestFiles(dest)[j])

\* results.filter(r => !r.exists).map(r => r.dest)
DeadLinks(T, files) ==
    SelectSeq(InternalDestinations(T), LAMBDA d : ~DestExists(files, d))

\* the fs.access calls validateFileConflicts issues, in dispatch order
ConflictProbes(T) ==
    [i \in 1..Len(FileChecks(T)) |->
        [check |-> "source", filePath |-> FileChecks(T)[i].filePath]]

\* the fs.access calls validateDeadLinks issues, in dispatch order
RECURSIVE DestProbes(_)
DestProbes(ds) ==
    IF Len(ds) = 0 THEN <<>>
    ELSE [j \in 1..Len(PossibleDestFiles(Head(ds))) |->
            [check |-> "destination", filePath |-> PossibleDestFiles(Head(ds))[j]]]
         \o DestProbes(Tail(ds))

DeadLinkProbes(T) == DestProbes(InternalDestinations(T))

\* the sequential validator not under consideration: validate() has
\* returned, for an empty table
SequentialIdle ==
    /\ seqPc = "resolved"
    /\ seqError = NoError
    /\ seqWarnings = 0
    /\ seqProbes = <<>>
    /\ seqItem = 1
    /\ seqFile = 1
    /\ seqFound = <<>>

-----------------------------------------------------------------------------
(* RedirectValidator.validate(): one action per check *)

\* validate(): the check that runs first
FirstCheck == "validateSelfReferences"

\* validate() awaiting validateDeadLinks before validateFileConflicts
NextCheckDeadLinksFirst(check, config) ==
    CASE check = "validateSelfReferences"    -> "validateCircularRedirects"
      [] check = "validateCircularRedirects" -> "validatePaths"
      [] check = "validatePaths"             -> "validateDelay"
      [] check = "validateDelay"             ->
            IF config = "config" THEN "validateDeadLinks" ELSE "resolved"
      [] check = "validateDeadLinks"         -> "validateFileConflicts"
      [] check = "validateFileConflicts"     -> "resolved"

\* validate(): the check that runs after `check` has returned normally
NextCheck(check, config) ==
    CASE check = "validateSelfReferences"    -> "validateCircularRedirects"
      [] check = "validateCircularRedirects" -> "validatePaths"
      [] check = "validatePaths"             -> "validateDelay"
      [] check = "validateDelay"             ->
            IF config = "config" THEN "validateFileConflicts" ELSE "resolved"
      [] check = "validateFileConflicts"     -> "validateDeadLinks"
      [] check = "validateDeadLinks"         -> "resolved"

\* a check throws: validate() rejects with that error
Throw(e) ==
    /\ error' = e
    /\ pc' = "rejected"

\* a check returns, validate() without its test if (this.vitepressConfig)
ReturnWithoutConfigTest ==
    /\ pc' = NextCheck(pc, "config")
    /\ UNCHANGED error

\* a check returns: validate() goes on with the next one
Return ==
    /\ pc' = NextCheck(pc, vitepressConfig)
    /\ UNCHANGED error

ValidateSelfReferences ==
    /\ pc = "validateSelfReferences"
    /\ IF Len(SelfRefs(rules)) > 0
       THEN Throw([kind |-> "SelfReference", offenders |-> SelfRefs(rules)])
       ELSE Return
    /\ UNCHANGED <<inputVars, vitepressConfig, probes, warnings, pluginVars,
                   probeVars, sequentialVars>>

ValidateCircularRedirects ==
    /\ pc = "validateCircularRedirects"
    /\ IF Circular(rules).found
       THEN Throw([kind |-> "CircularRedirect",
                   offenders |-> <<Circular(rules).source>>])
       ELSE Return
    /\ UNCHANGED <<inputVars, vitepressConfig, probes, warnings, pluginVars,
                   probeVars, sequentialVars>>

ValidatePaths ==
    /\ pc = "validatePaths"
    /\ IF PathError(rules).kind # "none"
       THEN Throw(PathError(rules))
       ELSE Return
    /\ UNCHANGED <<inputVars, vitepressConfig, probes, warnings, pluginVars,
                   probeVars, sequentialVars>>

\* validateDelay writing a delay capped at 5 back into the options
ValidateDelayCapping ==
    /\ pc = "validateDelay"
    /\ warnings' = IF DelayWarns(options) THEN warnings + 1 ELSE warnings
    /\ options' = [options EXCEPT !.redirectDelay = IF @ > 5 THEN 5 ELSE @]
    /\ Return
    /\ UNCHANGED <<rules, fs, configVars, sanitizeVars, vitepressConfig, probes,
                   pluginVars, probeVars, sequentialVars>>

ValidateDelay ==
    /\ pc = "validateDelay"
    /\ warnings' = IF DelayWarns(options) THEN warnings + 1 ELSE warnings
    /\ Return
    /\ UNCHANGED <<inputVars, vitepressConfig, probes, pluginVars,
                   probeVars, sequentialVars>>

\* validateFileConflicts without its early return
SkipFileConflictsNever(opts) == FALSE

\* validateDeadLinks without its early return
SkipDeadLinksNever(opts) == FALSE

\* validateFileConflicts: if (this.options.overrideExisting) return
SkipFileConflicts(opts) == opts.overrideExisting

\* validateDeadLinks: if (this.options.ignoreDeadLinks) return
SkipDeadLinks(opts) == opts.ignoreDeadLinks

ValidateFileConflicts ==
    /\ pc = "validateFileConflicts"
    /\ IF SkipFileConflicts(options)
       THEN /\ Return
            /\ UNCHANGED probes
       ELSE /\ probes' = probes \o ConflictProbes(rules)
            /\ IF Len(Conflicts(rules, fs)) > 0
               THEN Throw([kind |-> "FileConflict",
                           offenders |-> Conflicts(rules, fs)])
               ELSE Return
    /\ UNCHANGED <<inputVars, vitepressConfig, warnings, pluginVars,
                   probeVars, sequentialVars>>

ValidateDeadLinks ==
    /\ pc = "validateDeadLinks"
    /\ IF SkipDeadLinks(options)
       THEN /\ Return
            /\ UNCHANGED probes
       ELSE /\ probes' = probes \o DeadLinkProbes(rules)
            /\ IF Len(DeadLinks(rules, fs)) > 0
               THEN Throw([kind |-> "DeadLink",
                           offenders |-> DeadLinks(rules, fs)])
               ELSE Return
    /\ UNCHANGED <<inputVars, vitepressConfig, warnings, pluginVars,
                   probeVars, sequentialVars>>

NextValidator ==
    \/ ValidateSelfReferences
    \/ ValidateCircularRedirects
    \/ ValidatePaths
    \/ ValidateDelay
    \/ ValidateFileConflicts
    \/ ValidateDeadLinks

-----------------------------------------------------------------------------
(* validateFileConflicts and validateDeadLinks, probe by probe *)

(***************************************************************************)
(* Each check dispatches all its fs.access calls while it builds its list  *)
(* of items, then awaits Promise.all.  The calls complete one at a time in *)
(* any order; no promise rejects (.catch(() => false)), so Promise.all     *)
(* resolves when the last call has completed, with the results in the      *)
(* order of the items.  inflight[i].item is the position of the item       *)
(* (file check, or internal destination) probe i belongs to.               *)
(***************************************************************************)

\* the fs.access calls of fileChecks: one per item
SourceProbes(T) ==
    [i \in 1..Len(FileChecks(T)) |->
        [item |-> i, filePath |-> FileChecks(T)[i].filePath,
         settled |-> FALSE, exists |-> FALSE]]

\* the fs.access calls of destinationChecks from item d on: one per
\* possible file of each internal destination
RECURSIVE DestinationProbes(_, _)
DestinationProbes(ds, d) ==
    IF d > Len(ds) THEN <<>>
    ELSE [j \in 1..Len(PossibleDestFiles(ds[d])) |->
            [item |-> d, filePath |-> PossibleDestFiles(ds[d])[j],
             settled |-> FALSE, exists |-> FALSE]]
         \o DestinationProbes(ds, d + 1)

\* the positions 1..n in increasing order
Positions(n) == [i \in 1..n |-> i]

\* conflicts collected in the order in which the probes completed
ConflictsOfCompleted(T, fl, order) ==
    LET found == SelectSeq(order, LAMBDA i : fl[i].exists)
    IN  [k \in 1..Len(found) |-> FileChecks(T)[fl[found[k]].item]]

\* results.filter(r => r.exists): results is in the order of fileChecks
ConflictsOf(T, fl, order) ==
    LET found == SelectSeq(Positions(Len(fl)), LAMBDA i : fl[i].exists)
    IN  [k \in 1..Len(found) |-> FileChecks(T)[fl[found[k]].item]]

\* results.filter(r => !r.exists).map(r => r.dest): results is in the order
\* of destinationChecks, exists being checks.some(Boolean)
DeadLinksOf(T, fl) ==
    LET ds   == InternalDestinations(T)
        dead == SelectSeq(Positions(Len(ds)),
                          LAMBDA d : \A i \in 1..Len(fl) :
                                        fl[i].item = d => ~fl[i].exists)
    IN  [k \in 1..Len(dead) |-> ds[dead[k]]]

\* validateFileConflicts up to its await
DispatchFileConflicts ==
    /\ pc = "validateFileConflicts"
    /\ IF SkipFileConflicts(options)
       THEN /\ Return
            /\ UNCHANGED <<probes, probeVars>>
       ELSE /\ probes' = probes \o ConflictProbes(rules)
            /\ inflight' = SourceProbes(rules)
            /\ completion' = <<>>
            /\ pc' = "awaitFileConflicts"
            /\ UNCHANGED error
    /\ UNCHANGED <<inputVars, vitepressConfig, warnings, pluginVars,
                   sequentialVars>>

\* validateDeadLinks up to its await
DispatchDeadLinks ==
    /\ pc = "validateDeadLinks"
    /\ IF SkipDeadLinks(options)
       THEN /\ Return
            /\ UNCHANGED <<probes, probeVars>>
       ELSE /\ probes' = probes \o DeadLinkProbes(rules)
            /\ inflight' = DestinationProbes(InternalDestinations(rules), 1)
            /\ completion' = <<>>
            /\ pc' = "awaitDeadLinks"
            /\ UNCHANGED error
    /\ UNCHANGED <<inputVars, vitepressConfig, warnings, pluginVars,
                   sequentialVars>>

\* one fs.access call completes: .then(() => true).catch(() => false)
Settle(i) ==
    /\ pc \in {"awaitFileConflicts", "awaitDeadLinks"}
    /\ ~inflight[i].settled
    /\ inflight' = [inflight EXCEPT ![i].settled = TRUE,
                                    ![i].exists = Exists(fs, inflight[i].filePath)]
    /\ completion' = Append(completion, i)
    /\ UNCHANGED <<inputVars, vitepressConfig, validatorVars, pluginVars,
                   sequentialVars>>

\* Promise.all has resolved
AllSettled == \A i \in 1..Len(inflight) : inflight[i].settled

\* validateFileConflicts after its await
CollectFileConflicts ==
    /\ pc = "awaitFileConflicts"
    /\ AllSettled
    /\ LET conflicts == ConflictsOf(rules, inflight, completion)
       IN  IF Len(conflicts) > 0
           THEN Throw([kind |-> "FileConflict", offenders |-> conflicts])
           ELSE /\ pc' = NextCheck("validateFileConflicts", vitepressConfig)
                /\ UNCHANGED error
    /\ UNCHANGED <<inputVars, vitepressConfig, probes, warnings, pluginVars,
                   probeVars, sequentialVars>>

\* validateDeadLinks after its await
CollectDeadLinks ==
    /\ pc = "awaitDeadLinks"
    /\ AllSettled
    /\ LET deadLinks == DeadLinksOf(rules, inflight)
       IN  IF Len(deadLinks) > 0
           THEN Throw([kind |-> "DeadLink", offenders |-> deadLinks])
           ELSE /\ pc' = NextCheck("validateDeadLinks", vitepressConfig)
                /\ UNCHANGED error
    /\ UNCHANGED <<inputVars, vitepressConfig, probes, warnings, pluginVars,
                   probeVars, sequentialVars>>

\* validate() with the completions of its probes as steps
NextProbes ==
    \/ ValidateSelfReferences
    \/ ValidateCircularRedirects
    \/ ValidatePaths
    \/ ValidateDelay
    \/ DispatchFileConflicts
    \/ DispatchDeadLinks
    \/ \E i \in 1..Len(inflight) : Settle(i)
    \/ CollectFileConflicts
    \/ CollectDeadLinks

-----------------------------------------------------------------------------
(* The sequential RedirectValidator: one awaited fs.access at a time *)

\* the first position from i on of a destination that does not start with
\* 'http': if (dest.startsWith('http')) continue
RECURSIVE NextInternal(_, _)
NextInternal(T, i) ==
    IF i > Len(T) \/ ~StartsWith(T[i].destination, Http) THEN i
    ELSE NextInternal(T, i + 1)

\* validate() up to its first await: the four in-memory checks
SeqValidate ==
    /\ seqPc = "validate"
    /\ IF Len(SelfRefs(rules)) > 0
       THEN /\ seqError' = [kind |-> "SelfReference", offenders |-> SelfRefs(rules)]
            /\ seqPc' = "rejected"
            /\ UNCHANGED seqWarnings
       ELSE IF Circular(rules).found
       THEN /\ seqError' = [kind |-> "CircularRedirect",
                            offenders |-> <<Circular(rules).source>>]
            /\ seqPc' = "rejected"
            /\ UNCHANGED seqWarnings
       ELSE IF PathError(rules).kind # "none"
       THEN /\ seqError' = PathError(rules)
            /\ seqPc' = "rejected"
            /\ UNCHANGED seqWarnings
       ELSE /\ seqWarnings' = IF DelayWarns(options) THEN seqWarnings + 1
                              ELSE seqWarnings
            /\ seqPc' = IF vitepressConfig = "config" THEN "validateFileConflicts"
                        ELSE "resolved"
            /\ UNCHANGED seqError
    /\ seqItem' = 1
    /\ seqFile' = 1
    /\ seqFound' = <<>>
    /\ UNCHANGED <<inputVars, vitepressConfig, validatorVars, pluginVars,
                   probeVars, seqProbes>>

\* validateFileConflicts: one await fs.access(filePath) of the inner loop
SeqAccessSource ==
    /\ seqPc = "validateFileConflicts"
    /\ ~options.overrideExisting
    /\ seqItem <= Len(rules)
    /\ LET source   == rules[seqItem].source
           filePath == PossibleFiles(source)[seqFile]
       IN  /\ seqProbes' = Append(seqProbes,
                                  [check |-> "source", filePath |-> filePath])
           /\ seqFound' = IF Exists(fs, filePath)
                          THEN Append(seqFound,
                                      [source |-> source, filePath |-> filePath])
                          ELSE seqFound
    /\ IF seqFile < 3
       THEN seqFile' = seqFile + 1 /\ UNCHANGED seqItem
       ELSE seqFile' = 1 /\ seqItem' = seqItem + 1
    /\ UNCHANGED <<inputVars, vitepressConfig, validatorVars, pluginVars,
                   probeVars, seqPc, seqError, seqWarnings>>

\* validateFileConflicts returning at once or after its loops
SeqEndFileConflicts ==
    /\ seqPc = "validateFileConflicts"
    /\ options.overrideExisting \/ seqItem > Len(rules)
    /\ IF Len(seqFound) > 0
       THEN /\ seqError' = [kind |-> "FileConflict", offenders |-> seqFound]
            /\ seqPc' = "rejected"
            /\ UNCHANGED <<seqItem, seqFile, seqFound>>
       ELSE /\ seqPc' = "validateDeadLinks"
            /\ seqItem' = NextInternal(rules, 1)
            /\ seqFile' = 1
            /\ seqFound' = <<>>
            /\ UNCHANGED seqError
    /\ UNCHANGED <<inputVars, vitepressConfig, validatorVars, pluginVars,
                   probeVars, seqWarnings, seqProbes>>

\* validateDeadLinks: one await fs.access(filePath) of the inner loop, with
\* the break at an existing file and the push after the last candidate
SeqAccessDestination ==
    /\ seqPc = "validateDeadLinks"
    /\ ~options.ignoreDeadLinks
    /\ seqItem <= Len(rules)
    /\ LET dest     == rules[seqItem].destination
           filePath == PossibleDestFiles(dest)[seqFile]
       IN  /\ seqProbes' = Append(seqProbes,
                                  [check |-> "destination", filePath |-> filePath])
           /\ IF Exists(fs, filePath)
              THEN /\ seqItem' = NextInternal(rules, seqItem + 1)
                   /\ seqFile' = 1
                   /\ UNCHANGED seqFound
              ELSE IF seqFile < Len(PossibleDestFiles(dest))
              THEN /\ seqFile' = seqFile + 1
                   /\ UNCHANGED <<seqItem, seqFound>>
              ELSE /\ seqItem' = NextInternal(rules, seqItem + 1)
                   /\ seqFile' = 1
                   /\ seqFound' = Append(seqFound, dest)
    /\ UNCHANGED <<inputVars, vitepressConfig, validatorVars, pluginVars,
                   probeVars, seqPc, seqError, seqWarnings>>

\* validateDeadLinks returning at once or after its loops
SeqEndDeadLinks ==
    /\ seqPc = "validateDeadLinks"
    /\ options.ignoreDeadLinks \/ seqItem > Len(rules)
    /\ IF Len(seqFound) > 0
       THEN /\ seqError' = [kind |-> "DeadLink", offenders |-> seqFound]
            /\ seqPc' = "rejected"
       ELSE /\ seqPc' = "resolved"
            /\ UNCHANGED seqError
    /\ UNCHANGED <<inputVars, vitepressConfig, validatorVars, pluginVars,
                   probeVars, seqWarnings, seqProbes, seqItem, seqFile,
                   seqFound>>

NextSequential ==
    \/ SeqValidate
    \/ SeqAccessSource
    \/ SeqEndFileConflicts
    \/ SeqAccessDestination
    \/ SeqEndDeadLinks

\* the sequential validator has returned or thrown
SeqTerminal == seqPc \in {"resolved", "rejected"}

\* both validators run on one table, one site root and the same options,
\* the sequential one first
NextBoth ==
    \/ NextSequential
    \/ SeqTerminal /\ NextValidator

-----------------------------------------------------------------------------
(* RedirectGenerator and the plugin hooks *)

\* inputPath.replace(/^\//, ''): one leading slash only
StripLeadingSlashOnce(s) ==
    IF Len(s) > 0 /\ Head(s) = "/" THEN Tail(s) ELSE s

\* sanitizePath: inputPath.replace(/^\/+/, '').replace(/\/+$/, '')
RECURSIVE StripLeadingSlashes(_)
StripLeadingSlashes(s) ==
    IF Len(s) > 0 /\ Head(s) = "/" THEN StripLeadingSlashes(Tail(s)) ELSE s

RECURSIVE StripTrailingSlashes(_)
StripTrailingSlashes(s) ==
    IF Len(s) > 0 /\ s[Len(s)] = "/"
    THEN StripTrailingSlashes(SubSeq(s, 1, Len(s) - 1))
    ELSE s

SanitizePath(inputPath) == StripTrailingSlashes(StripLeadingSlashes(inputPath))

\* a call of sanitizePath(inputPath)
CallSanitizePath ==
    /\ sanitized = {}
    /\ sanitized' = {SanitizePath(rawPath)}
    /\ UNCHANGED <<rules, options, fs, configVars, rawPath, vitepressConfig,
                   validatorVars, pluginVars,
                   probeVars, sequentialVars>>

\* sanitizePath has returned, for the empty string
SanitizeIdle ==
    /\ rawPath = <<>>
    /\ sanitized = {SanitizePath(rawPath)}

\* generateAllRedirectFiles: path.join(outDir, sanitizePath(from), 'index.html'),
\* relative to outDir
OutputPath(from) == PathJoin2(SanitizePath(from), <<"index.html">>)

\* generateAllRedirectFiles: one writeFile per rule
GenerateAllRedirectFiles(T) ==
    { [filePath |-> OutputPath(T[i].source),
       source |-> T[i].source,
       destination |-> T[i].destination] : i \in 1..Len(T) }

\* routex() returning the three hooks whatever options.enable is
HooksAlways(opts) == {"transformIndexHtml", "configResolved", "generateBundle"}

\* the hooks of the plugin object routex() returns
Hooks(opts) ==
    IF ~opts.enable THEN {"transformIndexHtml"}
    ELSE {"transformIndexHtml", "configResolved", "generateBundle"}

\* positions at which validate() runs synchronously inside configResolved,
\* so that no other hook can be running
Synchronous ==
    {"validateSelfReferences", "validateCircularRedirects", "validatePaths",
     "validateDelay"}

\* configResolved(resolvedConfig) without its test if (!isSsrBuild)
ConfigResolvedAlwaysValidates(ssr) ==
    /\ "configResolved" \in Hooks(options)
    /\ pc \in {"idle", "resolved", "rejected"}
    /\ hookCalls < MaxHookCalls
    /\ hookCalls' = hookCalls + 1
    /\ isSsrBuild' = ssr
    /\ vitePressConfig' = "config"
    /\ vitepressConfig' = "config"
    /\ pc' = FirstCheck
    /\ error' = NoError
    /\ probes' = <<>>
    /\ warnings' = 0
    /\ UNCHANGED <<inputVars, written, generatedAt, pages, generatorVars,
                   probeVars, sequentialVars>>

\* configResolved(resolvedConfig), up to the call of validator.validate()
ConfigResolved(ssr) ==
    /\ "configResolved" \in Hooks(options)
    /\ pc \in {"idle", "resolved", "rejected"}
    /\ hookCalls < MaxHookCalls
    /\ hookCalls' = hookCalls + 1
    /\ isSsrBuild' = ssr
    /\ vitePressConfig' = "config"
    /\ IF ~ssr
       THEN /\ vitepressConfig' = "config"
            /\ pc' = FirstCheck
            /\ error' = NoError
            /\ probes' = <<>>
            /\ warnings' = 0
       ELSE /\ pc' = "resolved"
            /\ UNCHANGED <<vitepressConfig, error, probes, warnings>>
    /\ UNCHANGED <<inputVars, written, generatedAt, pages, generatorVars,
                   probeVars, sequentialVars>>

\* generateBundle() without its first line, if (isSsrBuild) return
GenerateBundleAlways ==
    /\ "generateBundle" \in Hooks(options)
    /\ pc \notin Synchronous
    /\ hookCalls < MaxHookCalls
    /\ hookCalls' = hookCalls + 1
    /\ written' = written \cup GenerateAllRedirectFiles(rules)
    /\ generatedAt' = IF Len(rules) = 0 THEN generatedAt
                      ELSE generatedAt \cup {pc}
    /\ UNCHANGED <<inputVars, vitepressConfig, validatorVars, isSsrBuild,
                   vitePressConfig, pages, generatorVars, probeVars,
                   sequentialVars>>

\* generateBundle()
GenerateBundle ==
    /\ "generateBundle" \in Hooks(options)
    /\ pc \notin Synchronous
    /\ hookCalls < MaxHookCalls
    /\ hookCalls' = hookCalls + 1
    /\ written' = IF isSsrBuild THEN written
                  ELSE written \cup GenerateAllRedirectFiles(rules)
    /\ generatedAt' = IF isSsrBuild \/ Len(rules) = 0 THEN generatedAt
                      ELSE generatedAt \cup {pc}
    /\ UNCHANGED <<inputVars, vitepressConfig, validatorVars, isSsrBuild,
                   vitePressConfig, pages, generatorVars, probeVars,
                   sequentialVars>>

-----------------------------------------------------------------------------
(* Template *)

(***************************************************************************)
(* Template text is a sequence of pieces: a placeholder, "<html",          *)
(* "<!DOCTYPE", "$", "&", "`" and "'" are one piece each, any other piece  *)
(* is text without a placeholder or a "$" in it.                           *)
(***************************************************************************)

\* String.prototype.includes for one piece
Includes(s, piece) == \E i \in 1..Len(s) : s[i] = piece

\* Number.prototype.toString of a natural number
RECURSIVE NumberToString(_)
NumberToString(n) ==
    LET digit == <<"0", "1", "2", "3", "4", "5", "6", "7", "8", "9">>[(n % 10) + 1]
    IN  IF n < 10 THEN <<digit>> ELSE NumberToString(n \div 10) \o <<digit>>

\* getDefaultTemplate(): the built-in page, its placeholders in order
DefaultTemplate ==
    << "<!DOCTYPE", " html>", "<html", " lang=\"en\"><head>", "{metaTags}",
       "<script>location.replace(", "{destination}", ") location.href = ",
       "{destination}", "{redirectDelay}", " * 1000</script></head><body>",
       "{destination}", "<a href=", "{destination}", "<noscript><a href=",
       "{destination}", "{destination}", "</noscript></body></html>" >>

\* the replacement string of String.prototype.replace expanded for one match:
\* $$ is "$", $& the matched text, $` the text before the match, $' the text
\* after it; there is no capture group, so $1 and $<name> stay as they are
RECURSIVE Expand(_, _, _, _)
Expand(value, matched, before, after) ==
    IF Len(value) = 0 THEN <<>>
    ELSE IF Head(value) = "$" /\ Len(value) >= 2
                              /\ value[2] \in {"$", "&", "`", "'"}
         THEN (CASE value[2] = "$" -> <<"$">>
                 [] value[2] = "&" -> matched
                 [] value[2] = "`" -> before
                 [] value[2] = "'" -> after)
              \o Expand(SubSeq(value, 3, Len(value)), matched, before, after)
         ELSE <<Head(value)>> \o Expand(Tail(value), matched, before, after)

\* s.replace(/placeholder/g, value), from piece i of s on
RECURSIVE ReplaceFrom(_, _, _, _)
ReplaceFrom(s, i, placeholder, value) ==
    IF i > Len(s) THEN <<>>
    ELSE (IF s[i] = placeholder
          THEN Expand(value, <<placeholder>>,
                      SubSeq(s, 1, i - 1), SubSeq(s, i + 1, Len(s)))
          ELSE <<s[i]>>)
         \o ReplaceFrom(s, i + 1, placeholder, value)

\* s.replace(/placeholder/g, value)
ReplaceAll(s, placeholder, value) == ReplaceFrom(s, 1, placeholder, value)

\* processTemplate(template, source, destination, metaTags, delay)
ProcessTemplate(template, source, destination, metaTags, delay) ==
    ReplaceAll(
        ReplaceAll(
            ReplaceAll(
                ReplaceAll(template, "{source}", source),
                "{destination}", destination),
            "{redirectDelay}", NumberToString(delay)),
        "{metaTags}", metaTags)

\* the site source root and the working directory, as absolute paths
SrcDir == <<"/", "src">>
Cwd == <<"/", "cwd">>

\* path.isAbsolute(templatePath)
IsAbsolute(templatePath) == Len(templatePath) > 0 /\ Head(templatePath) = "/"

\* loadTemplate resolving against the working directory only
ConfigDirAlwaysCwd(config) == Cwd

\* loadTemplate: this.vitepressConfig?.vitepress?.srcDir || process.cwd()
ConfigDir(config) == IF config = "config" THEN SrcDir ELSE Cwd

\* path.resolve(configDir, templatePath) for a relative file name
PathResolve(configDir, templatePath) == configDir \o <<"/">> \o templatePath

\* loadTemplate: the path handed to fs.readFile
TemplatePath(template, config) ==
    IF IsAbsolute(template) THEN template
    ELSE PathResolve(ConfigDir(config), template)

\* loadTemplate: template.includes('<html') || template.includes('<!DOCTYPE')
IsInline(template) == Includes(template, "<html") \/ Includes(template, "<!DOCTYPE")

\* fs.readFile(templatePath, 'utf8'): {data}, or {} when the read fails
ReadFile(files, templatePath) ==
    { f.data : f \in { g \in files : g.path = templatePath } }

\* loadTemplate without its try / catch: a failed read is raised
LoadTemplateUncaught(template, config, files) ==
    IF IsInline(template)
    THEN [raised |-> FALSE, value |-> {template}, read |-> {}]
    ELSE LET templatePath == TemplatePath(template, config)
         IN  [raised |-> ReadFile(files, templatePath) = {},
              value |-> ReadFile(files, templatePath),
              read |-> {templatePath}]

\* loadTemplate(template): raised tells whether it rejects, value is {} for
\* undefined and {string} otherwise, read holds the path given to fs.readFile
LoadTemplate(template, config, files) ==
    IF IsInline(template)
    THEN [raised |-> FALSE, value |-> {template}, read |-> {}]
    ELSE LET templatePath == TemplatePath(template, config)
         IN  [raised |-> FALSE,
              value |-> ReadFile(files, templatePath),
              read |-> {templatePath}]

\* resolveTemplate: template || this.getDefaultTemplate()
OrDefault(value) ==
    IF value = {} \/ value = {Empty} THEN DefaultTemplate
    ELSE CHOOSE t \in value : TRUE

\* createMetaTags(destination, delay)
CreateMetaTags(destination, delay, opts) ==
    << "<meta http-equiv=\"refresh\" content=\"" >> \o NumberToString(delay)
    \o << "; url=" >> \o destination \o << "\">" >>
    \o (IF opts.addNoIndexMeta
        THEN << "\n    ", "<meta name=\"robots\" content=\"noindex, nofollow\">" >>
        ELSE <<>>)
    \o (IF opts.addCanonical
        THEN << "\n    ", "<link rel=\"canonical\" href=\"" >> \o destination
             \o << "\">" >>
        ELSE <<>>)

\* generateRedirectPage(source, destination, templateManager) once
\* resolveTemplate() has returned template
GenerateRedirectPage(source, destination, template, opts) ==
    ProcessTemplate(template, source, destination,
                    CreateMetaTags(destination, opts.redirectDelay, opts),
                    opts.redirectDelay)

-----------------------------------------------------------------------------
(* RedirectGenerator.injectClientScript and the transformIndexHtml hook *)

\* JSON.stringify(this.rules, null, 2), from rule i on
RECURSIVE RedirectsJson(_, _)
RedirectsJson(T, i) ==
    IF i > Len(T) THEN <<>>
    ELSE T[i].source \o <<":">> \o T[i].destination \o <<",">>
         \o RedirectsJson(T, i + 1)

\* injectClientScript: the script element holding the table
Script(T) ==
    <<"<script>", "const redirects = ">> \o RedirectsJson(T, 1)
    \o <<"performRedirect();", "</script>">>

\* s.replace(piece, value) with a string pattern: the first occurrence only,
\* looked for from piece i of s on
RECURSIVE ReplaceFirst(_, _, _, _)
ReplaceFirst(s, i, piece, value) ==
    IF i > Len(s) THEN s
    ELSE IF s[i] = piece
         THEN SubSeq(s, 1, i - 1)
              \o Expand(value, <<piece>>, SubSeq(s, 1, i - 1),
                        SubSeq(s, i + 1, Len(s)))
              \o SubSeq(s, i + 1, Len(s))
         ELSE ReplaceFirst(s, i + 1, piece, value)

\* injectClientScript(html): html.replace('<head>', `<head>\n    ${script}`)
InjectClientScript(html, T) ==
    ReplaceFirst(html, 1, "<head>", <<"<head>">> \o Script(T))

\* transformIndexHtml(html) of the plugin object, disabled or enabled
TransformIndexHtml(html) ==
    /\ "transformIndexHtml" \in Hooks(options)
    /\ pc \notin Synchronous
    /\ hookCalls < MaxHookCalls
    /\ hookCalls' = hookCalls + 1
    /\ pages' = Append(pages,
                       [html |-> html,
                        result |-> IF ~options.enable THEN html
                                   ELSE InjectClientScript(html, rules)])
    /\ UNCHANGED <<inputVars, vitepressConfig, validatorVars, isSsrBuild,
                   vitePressConfig, written, generatedAt, generatorVars,
                   probeVars, sequentialVars>>

-----------------------------------------------------------------------------
(* RedirectGenerator.generateAllRedirectFiles: one callback per rule *)

nonGeneratorVars ==
    <<inputVars, vitepressConfig, validatorVars, isSsrBuild, vitePressConfig,
      written, generatedAt, hookCalls, pages, disk, probeVars, sequentialVars>>

\* the callback of rule i before Object.entries(this.rules).map has called it
PendingTask == [pc |-> "pending", template |-> <<>>, html |-> <<>>]

\* path.dirname(filePath), relative to outDir
OutputDir(from) == PathJoin1(SanitizePath(from))

\* generateAllRedirectFiles(outDir) up to the call of map: returns at once on
\* an empty table, otherwise constructs the Template
StartGeneration ==
    /\ genPc = "idle"
    /\ IF Len(rules) = 0
       THEN /\ genPc' = "returned"
            /\ UNCHANGED <<cachedTemplate, tasks>>
       ELSE /\ genPc' = "map"
            /\ cachedTemplate' = {}
            /\ tasks' = [i \in 1..Len(rules) |-> PendingTask]
    /\ UNCHANGED <<nonGeneratorVars, loads, dirs, outFiles, writes>>

\* the callback of rule i from its call by map to its first suspension:
\* generateRedirectPage calls resolveTemplate(), which returns the cached
\* template, or caches the default for an empty option, or calls
\* loadTemplate and waits for it with this.cachedTemplate still undefined
Callback(i) ==
    /\ genPc = "map"
    /\ tasks[i].pc = "pending"
    /\ \A j \in 1..(i - 1) : tasks[j].pc # "pending"
    /\ genPc' = IF i = Len(rules) THEN "await" ELSE "map"
    /\ IF cachedTemplate # {}
       THEN /\ tasks' = [tasks EXCEPT ![i].pc = "resolved",
                                      ![i].template = OrDefault(cachedTemplate)]
            /\ UNCHANGED <<cachedTemplate, loads>>
       ELSE IF options.template = Empty
       THEN /\ cachedTemplate' = {OrDefault({options.template})}
            /\ tasks' = [tasks EXCEPT ![i].pc = "resolved",
                                      ![i].template = OrDefault({options.template})]
            /\ UNCHANGED loads
       ELSE /\ loads' = Append(loads,
                           [template |-> options.template,
                            read |-> LoadTemplate(options.template,
                                                  vitepressConfig, disk).read])
            /\ tasks' = [tasks EXCEPT ![i].pc = "loadTemplate"]
            /\ UNCHANGED cachedTemplate
    /\ UNCHANGED <<nonGeneratorVars, dirs, outFiles, writes>>

\* await this.loadTemplate(template) is over for the callback of rule i:
\* resolveTemplate() sets this.cachedTemplate and returns it, or rejects
LoadTemplateReturns(i) ==
    /\ genPc \in {"await", "rejected"}
    /\ tasks[i].pc = "loadTemplate"
    /\ LET r == LoadTemplate(options.template, vitepressConfig, disk)
       IN  IF r.raised
           THEN /\ tasks' = [tasks EXCEPT ![i].pc = "failed"]
                /\ UNCHANGED cachedTemplate
           ELSE /\ cachedTemplate' = {OrDefault(r.value)}
                /\ tasks' = [tasks EXCEPT ![i].pc = "resolved",
                                          ![i].template = OrDefault(r.value)]
    /\ UNCHANGED <<nonGeneratorVars, genPc, loads, dirs, outFiles, writes>>

\* generateRedirectPage after resolveTemplate(): createMetaTags and
\* processTemplate give the html of rule i
RenderPage(i) ==
    /\ genPc \in {"await", "rejected"}
    /\ tasks[i].pc = "resolved"
    /\ tasks' = [tasks EXCEPT
                   ![i].pc = "mkdir",
                   ![i].html = GenerateRedirectPage(rules[i].source,
                                   rules[i].destination, tasks[i].template,
                                   options)]
    /\ UNCHANGED <<nonGeneratorVars, genPc, cachedTemplate, loads, dirs,
                   outFiles, writes>>

\* await fs.mkdir(path.dirname(filePath), { recursive: true })
Mkdir(i) ==
    /\ genPc \in {"await", "rejected"}
    /\ tasks[i].pc = "mkdir"
    /\ dirs' = dirs \cup {OutputDir(rules[i].source)}
    /\ tasks' = [tasks EXCEPT ![i].pc = "writeFile"]
    /\ UNCHANGED <<nonGeneratorVars, genPc, cachedTemplate, loads, outFiles,
                   writes>>

\* await fs.writeFile(filePath, html, 'utf8')
WriteFile(i) ==
    /\ genPc \in {"await", "rejected"}
    /\ tasks[i].pc = "writeFile"
    /\ LET filePath == OutputPath(rules[i].source)
       IN  /\ outFiles' = {f \in outFiles : f.filePath # filePath}
                          \cup {[filePath |-> filePath, content |-> tasks[i].html]}
           /\ writes' = Append(writes, [task |-> i, filePath |-> filePath,
                                        html |-> tasks[i].html])
    /\ tasks' = [tasks EXCEPT ![i].pc = "done"]
    /\ UNCHANGED <<nonGeneratorVars, genPc, cachedTemplate, loads, dirs>>

\* await Promise.all(...) is over: generateAllRedirectFiles returns when
\* every callback has finished, and rejects as soon as one has failed
PromiseAll ==
    /\ genPc = "await"
    /\ \/ \E i \in 1..Len(tasks) : tasks[i].pc = "failed"
       \/ \A i \in 1..Len(tasks) : tasks[i].pc = "done"
    /\ genPc' = IF \E i \in 1..Len(tasks) : tasks[i].pc = "failed"
                THEN "rejected" ELSE "returned"
    /\ UNCHANGED <<nonGeneratorVars, cachedTemplate, tasks, loads, dirs,
                   outFiles, writes>>

NextGenerator ==
    \/ StartGeneration
    \/ \E i \in 1..Len(tasks) : Callback(i)
    \/ \E i \in 1..Len(tasks) : LoadTemplateReturns(i)
    \/ \E i \in 1..Len(tasks) : RenderPage(i)
    \/ \E i \in 1..Len(tasks) : Mkdir(i)
    \/ \E i \in 1..Len(tasks) : WriteFile(i)
    \/ PromiseAll

-----------------------------------------------------------------------------
(* normalizeConfig *)

(***************************************************************************)
(* A RedirectConfig is an object: entries holds its string-valued          *)
(* properties in key order, rules and options hold the object-valued       *)
(* properties of these names, {} when absent.  An options object is a      *)
(* record over the recognized flags: {} for a property that is absent,     *)
(* {{}} for one whose value is undefined, {{v}} for one whose value is v.  *)
(***************************************************************************)

RulesKey == << "rules" >>

Flags ==
    {"enable", "addCanonical", "addNoIndexMeta", "redirectDelay", "template",
     "overrideExisting", "ignoreDeadLinks"}

\* const DEFAULT_OPTIONS
DEFAULT_OPTIONS ==
    [enable |-> {{TRUE}},
     addCanonical |-> {{FALSE}},
     addNoIndexMeta |-> {{FALSE}},
     redirectDelay |-> {{0}},
     template |-> {{Empty}},
     overrideExisting |-> {{FALSE}},
     ignoreDeadLinks |-> {{FALSE}}]

\* an object without any of the recognized properties
NoOptions == [f \in Flags |-> {}]

\* { ...a, ...b }: the properties of a, overridden by the own properties of b
Spread(a, b) == [f \in Flags |-> IF b[f] # {} THEN b[f] ELSE a[f]]

\* isRedirectConfigObject(config): 'rules' in config
IsRedirectConfigObject(c) == c.rules # {} \/ HasKey(c.entries, RulesKey)

\* config.rules
ConfigRules(c) ==
    IF c.rules # {} THEN CHOOSE T \in c.rules : TRUE ELSE Get(c.entries, RulesKey)

\* config.options as the operand of a spread: nothing when undefined
ConfigOptions(c) ==
    IF c.options # {} THEN CHOOSE o \in c.options : TRUE ELSE NoOptions

\* normalizeConfig(config)
NormalizeConfig(c) ==
    IF IsRedirectConfigObject(c)
    THEN [rules |-> ConfigRules(c),
          options |-> Spread(DEFAULT_OPTIONS, ConfigOptions(c))]
    ELSE [rules |-> c.entries, options |-> DEFAULT_OPTIONS]

\* a call of normalizeConfig(config)
CallNormalizeConfig ==
    /\ normalized = {}
    /\ normalized' = {NormalizeConfig(redirectConfig)}
    /\ UNCHANGED <<rules, options, fs, redirectConfig, sanitizeVars,
                   vitepressConfig, validatorVars, pluginVars,
                   probeVars, sequentialVars>>

\* normalizeConfig has returned, for an empty table
ConfigIdle ==
    /\ redirectConfig = [entries |-> <<>>, rules |-> {}, options |-> {}]
    /\ normalized = {NormalizeConfig(redirectConfig)}

-----------------------------------------------------------------------------
(* Inputs *)

DefaultOptions ==
    [overrideExisting |-> FALSE, ignoreDeadLinks |-> FALSE, redirectDelay |-> 0,
     template |-> Empty, addCanonical |-> FALSE, addNoIndexMeta |-> FALSE,
     enable |-> TRUE]

OptionSets ==
    [overrideExisting : BOOLEAN, ignoreDeadLinks : BOOLEAN, redirectDelay : {0, 5, 6},
     template : {Empty}, addCanonical : {FALSE}, addNoIndexMeta : {FALSE},
     enable : {TRUE}]

\* tables for the in-memory checks: chains and cycles of up to MaxChain rules,
\* the empty string included as a key and as a destination
GraphKeys == {Empty, PathA, PathB, PathC}
GraphDests == {Empty, PathA, PathB, PathC, PathD}

\* tables for the file-system checks
FsKeys == {PathA, PathB, RelA}
FsDests == {PathA, PathB, ExternalUrl, PathAHash, PathAQuery}
Files ==
    { <<"a", ".md">>, <<"a", "/", "index.md">>, <<"a", ".html">>, <<"b", ".html">> }

\* tables for the path-shape check: two sources and two destinations of a
\* wrong shape
ShapeKeys == {PathA, RelA, RelB}
ShapeDests == {PathB, RelA, RelB, ExternalUrl}

\* tables and site roots for the probes in flight
ProbeKeys == {PathA, PathB}
ProbeDests == {PathA, PathC, ExternalUrl}
ProbeFiles == { <<"a", ".md">>, <<"a", ".html">>, <<"c", ".md">> }

\* tables for the plugin
PluginKeys == {PathA, PathB, RelA}
PluginDests == {PathA, PathC, RelA}
PluginFiles == { <<"a", ".md">>, <<"c", ".md">> }

PluginIdle ==
    /\ isSsrBuild = FALSE
    /\ vitePressConfig = "undefined"
    /\ written = {}
    /\ generatedAt = {}
    /\ hookCalls = 0
    /\ pages = <<>>

GeneratorIdle ==
    /\ genPc = "idle"
    /\ cachedTemplate = {}
    /\ tasks = <<>>
    /\ loads = <<>>
    /\ dirs = {}
    /\ outFiles = {}
    /\ writes = <<>>

ValidatorIdle ==
    /\ error = NoError
    /\ probes = <<>>
    /\ warnings = 0
    /\ inflight = <<>>
    /\ completion = <<>>
    /\ SequentialIdle

\* a RedirectValidator constructed directly, validate() just called
InitValidator ==
    /\ \/ /\ rules \in TablesOf(GraphKeys, GraphDests, MaxChain)
          /\ options = DefaultOptions
          /\ fs = {}
       \/ /\ rules \in TablesOf(FsKeys, FsDests, MaxRules)
          /\ options \in OptionSets
          /\ fs \in SUBSET Files
       \/ /\ rules \in TablesOf(ShapeKeys, ShapeDests, MaxRules)
          /\ options = DefaultOptions
          /\ fs = {}
    /\ vitepressConfig \in {"undefined", "config"}
    /\ pc = FirstCheck
    /\ ValidatorIdle
    /\ PluginIdle
    /\ GeneratorIdle
    /\ ConfigIdle
    /\ SanitizeIdle
    /\ disk = {}

SpecValidator == InitValidator /\ [][NextValidator]_vars

\* pages handed to transformIndexHtml: with a head element, without one
Htmls == { <<"<html>", "<head>", "</head>">>, <<"<html>", "<body>">> }

\* the plugin object returned by routex(config), no hook called yet
Init ==
    /\ rules \in TablesOf(PluginKeys, PluginDests, MaxRules)
    /\ options \in OptionSets \cup {[DefaultOptions EXCEPT !.enable = FALSE]}
    /\ fs \in SUBSET PluginFiles
    /\ vitepressConfig = "undefined"
    /\ pc = "idle"
    /\ ValidatorIdle
    /\ PluginIdle
    /\ GeneratorIdle
    /\ ConfigIdle
    /\ SanitizeIdle
    /\ disk = {}

Next ==
    \/ \E ssr \in BOOLEAN : ConfigResolved(ssr)
    \/ GenerateBundle
    \/ \E html \in Htmls : TransformIndexHtml(html)
    \/ NextValidator

Spec == Init /\ [][Next]_vars

\* the template option: empty, inline markup, or a file name
InlineTemplate ==
    << "<html", "{source}", " to ", "{destination}", " or ", "{destination}",
       " in ", "{redirectDelay}", "{metaTags}" >>
DoctypeTemplate == << "<!DOCTYPE", "{destination}" >>
RelativeTemplatePath == << "t", ".html" >>
AbsoluteTemplatePath == << "/", "x", "/", "t", ".html" >>
Templates ==
    {Empty, InlineTemplate, DoctypeTemplate, RelativeTemplatePath,
     AbsoluteTemplatePath}

\* the readable template files: none, one per directory, an empty one
SrcDirFile == << "<body>", "{destination}" >>
CwdFile == << "<p>", "{source}", "{destination}" >>
AbsoluteFile == << "<div>", "{metaTags}" >>
DiskSets ==
    { {},
      { [path |-> PathResolve(SrcDir, RelativeTemplatePath), data |-> SrcDirFile],
        [path |-> PathResolve(Cwd, RelativeTemplatePath), data |-> CwdFile],
        [path |-> AbsoluteTemplatePath, data |-> AbsoluteFile] },
      { [path |-> PathResolve(SrcDir, RelativeTemplatePath), data |-> Empty] } }

\* tables for the generator: sources that differ in their slashes only, a
\* source and a destination holding pieces that replace() gives a meaning
PathATrailing == << "/", "a", "/" >>
PathAB == << "/", "a", "/", "b" >>
PathPlaceholder == << "/", "{destination}" >>
PathDollar == << "/", "c", "$", "&" >>
GeneratorKeys == {PathA, PathATrailing, PathAB, PathPlaceholder}
GeneratorDests == {PathB, PathC, PathDollar}

\* a RedirectGenerator constructed directly, generateAllRedirectFiles not
\* yet called
InitGenerator ==
    /\ \/ /\ rules \in TablesOf({PathA, PathB}, {PathC}, MaxTasks)
          /\ options \in [overrideExisting : {FALSE}, ignoreDeadLinks : {FALSE},
                          redirectDelay : {0}, template : Templates,
                          addCanonical : {FALSE}, addNoIndexMeta : {FALSE},
                          enable : {TRUE}]
          /\ disk \in DiskSets
          /\ vitepressConfig \in {"undefined", "config"}
       \/ /\ rules \in TablesOf(GeneratorKeys, GeneratorDests, MaxTasks)
          /\ options \in [overrideExisting : {FALSE}, ignoreDeadLinks : {FALSE},
                          redirectDelay : {0, 5},
                          template : {Empty, InlineTemplate},
                          addCanonical : BOOLEAN, addNoIndexMeta : {FALSE},
                          enable : {TRUE}]
          /\ disk = {}
          /\ vitepressConfig = "config"
    /\ fs = {}
    /\ pc = "idle"
    /\ ValidatorIdle
    /\ PluginIdle
    /\ GeneratorIdle
    /\ ConfigIdle
    /\ SanitizeIdle

SpecGenerator == InitGenerator /\ [][NextGenerator]_vars

\* option objects a caller can write: each recognized property absent,
\* undefined or holding a value of its type
PartialOptions ==
    [enable : {{}, {{}}, {{TRUE}}, {{FALSE}}},
     addCanonical : {{}, {{TRUE}}},
     addNoIndexMeta : {{}, {{FALSE}}},
     redirectDelay : {{}, {{}}, {{0}}, {{2}}},
     template : {{}, {{Empty}}, {{<<"<html">>}}},
     overrideExisting : {{}, {{TRUE}}},
     ignoreDeadLinks : {{}, {{}}, {{TRUE}}}]

ConfigTables == TablesOf({PathA, PathB}, {PathB, PathC}, MaxRules)

\* the two forms of RedirectConfig: the flat mapping, and the object with
\* rules and, optionally, options
RedirectConfigs ==
    [entries : ConfigTables, rules : {{}}, options : {{}}]
    \cup [entries : {<<>>}, rules : {{T} : T \in ConfigTables},
          options : {{}} \cup {{o} : o \in PartialOptions}]

\* normalizeConfig not yet called
InitConfig ==
    /\ redirectConfig \in RedirectConfigs
    /\ normalized = {}
    /\ SanitizeIdle
    /\ rules = <<>>
    /\ options = DefaultOptions
    /\ fs = {}
    /\ disk = {}
    /\ vitepressConfig = "undefined"
    /\ pc = "idle"
    /\ ValidatorIdle
    /\ PluginIdle
    /\ GeneratorIdle

NextConfig == CallNormalizeConfig

SpecConfig == InitConfig /\ [][NextConfig]_vars

\* strings of up to MaxLen pieces, slashes at both ends and inside
PathPieces == {"/", "a", "b"}
PathStrings == UNION { [1..n -> PathPieces] : n \in 0..MaxLen }

\* sanitizePath not yet called
InitSanitize ==
    /\ rawPath \in PathStrings
    /\ sanitized = {}
    /\ ConfigIdle
    /\ rules = <<>>
    /\ options = DefaultOptions
    /\ fs = {}
    /\ disk = {}
    /\ vitepressConfig = "undefined"
    /\ pc = "idle"
    /\ ValidatorIdle
    /\ PluginIdle
    /\ GeneratorIdle

NextSanitize == CallSanitizePath

SpecSanitize == InitSanitize /\ [][NextSanitize]_vars

\* a RedirectValidator constructed with a config, validate() just called
InitProbes ==
    /\ rules \in TablesOf(ProbeKeys, ProbeDests, MaxRules)
    /\ options \in [overrideExisting : BOOLEAN, ignoreDeadLinks : BOOLEAN,
                    redirectDelay : {0}, template : {Empty},
                    addCanonical : {FALSE}, addNoIndexMeta : {FALSE},
                    enable : {TRUE}]
    /\ fs \in SUBSET ProbeFiles
    /\ vitepressConfig = "config"
    /\ pc = FirstCheck
    /\ ValidatorIdle
    /\ PluginIdle
    /\ GeneratorIdle
    /\ ConfigIdle
    /\ SanitizeIdle
    /\ disk = {}

SpecProbes == InitProbes /\ [][NextProbes]_vars

\* tables for the two validators: the in-memory checks fail on some, the
\* file checks on others
BothKeys == {PathA, PathB, RelA}
BothDests == {PathA, PathC, Slash, ExternalUrl}
BothFiles == { <<"a", ".md">>, <<"a", ".html">>, <<"c", ".html">>, <<"index.md">> }

\* a validator of each kind constructed on the same arguments, validate()
\* just called on both
InitBoth ==
    /\ rules \in TablesOf(BothKeys, BothDests, MaxRules)
    /\ options \in [overrideExisting : BOOLEAN, ignoreDeadLinks : BOOLEAN,
                    redirectDelay : {0, 6}, template : {Empty},
                    addCanonical : {FALSE}, addNoIndexMeta : {FALSE},
                    enable : {TRUE}]
    /\ fs \in SUBSET BothFiles
    /\ vitepressConfig \in {"undefined", "config"}
    /\ pc = FirstCheck
    /\ error = NoError
    /\ probes = <<>>
    /\ warnings = 0
    /\ inflight = <<>>
    /\ completion = <<>>
    /\ seqPc = "validate"
    /\ seqError = NoError
    /\ seqWarnings = 0
    /\ seqProbes = <<>>
    /\ seqItem = 1
    /\ seqFile = 1
    /\ seqFound = <<>>
    /\ PluginIdle
    /\ GeneratorIdle
    /\ ConfigIdle
    /\ SanitizeIdle
    /\ disk = {}

SpecBoth == InitBoth /\ [][NextBoth]_vars

-----------------------------------------------------------------------------
(* Vocabulary of the properties *)

\* validate() has returned or thrown
Terminal == pc \in {"resolved", "rejected"}

\* the position of the rule with source k in the table
KeyIndex(T, k) == CHOOSE i \in 1..Len(T) : T[i].source = k

\* the rules whose destination is their own source
SelfRefIndices(T) == {i \in 1..Len(T) : T[i].destination = T[i].source}

\* a walk of k edges from key n in the graph on the keys of T that has an
\* edge s -> T[s] exactly when T[s] is a key of T
RECURSIVE Walk(_, _, _)
Walk(T, n, k) ==
    IF k = 0 THEN TRUE
    ELSE HasKey(T, Get(T, n)) /\ Walk(T, Get(T, n), k - 1)

\* following the redirects from key n never ends: n leads into a cycle
LeadsToCycle(T, n) == Walk(T, n, Len(T))

\* the graph on the keys of T contains a directed cycle
HasCycle(T) == \E n \in KeySet(T) : LeadsToCycle(T, n)

\* the pairs {a, b} with a -> b and b -> a rules of T
TwoCycles(T) ==
    { <<a, b>> \in KeySet(T) \X KeySet(T) :
        a # b /\ Get(T, a) = b /\ Get(T, b) = a }

I1(T) == \A i \in 1..Len(T) : T[i].destination # T[i].source
I2(T) == ~HasCycle(T)
I3(T) == \A i \in 1..Len(T) : Len(T[i].source) > 0 /\ T[i].source[1] = "/"
I4(T) ==
    \A i \in 1..Len(T) :
        LET d == T[i].destination
        IN  \/ Len(d) > 0 /\ d[1] = "/"
            \/ Len(d) >= 4 /\ <<d[1], d[2], d[3], d[4]>> = <<"h", "t", "t", "p">>

-----------------------------------------------------------------------------
(* C1 *)

\* C1: once validate() has ended, it has failed with the self-reference error
\* if and only if some rule has destination = source, and that error lists
\* exactly the self-referencing sources, each once, in table key order.
C1_SelfReferenceIffAndListsAll ==
    Terminal =>
        /\ (error.kind = "SelfReference") <=> (SelfRefIndices(rules) # {})
        /\ error.kind = "SelfReference" =>
              /\ pc = "rejected"
              /\ Len(error.offenders) = Cardinality(SelfRefIndices(rules))
              /\ \A i \in SelfRefIndices(rules) :
                    \E k \in 1..Len(error.offenders) :
                        error.offenders[k] = rules[i].source
              /\ \A k, l \in 1..Len(error.offenders) :
                    k < l => KeyIndex(rules, error.offenders[k])
                                < KeyIndex(rules, error.offenders[l])

\* a table with two self-referencing rules and one that is not has been rejected
C1_Witness ==
    /\ pc = "rejected"
    /\ error.kind = "SelfReference"
    /\ Len(error.offenders) = 2
    /\ Len(rules) = 3

-----------------------------------------------------------------------------
(* C2 *)

\* C2 as stated: once validate() has ended on a table containing a 2-cycle
\* a -> b, b -> a, it has failed with the circular-redirect error and the
\* source named is a or b.
C2_TwoCycleNamesMember ==
    Terminal =>
        \A c \in TwoCycles(rules) :
            /\ error.kind = "CircularRedirect"
            /\ error.offenders[1] \in {c[1], c[2]}

\* C2 as amended: once validate() has ended on a table containing a 2-cycle
\* a -> b, b -> a, it has failed; with a self-referencing rule in the table
\* the error is the self-reference error; without one and with a and b both
\* non-empty, the error is the circular-redirect error and names a key whose
\* redirect chain leads into a cycle, which is a or b when the table has no
\* other rule.
C2_TwoCycleRejected ==
    Terminal =>
        \A c \in TwoCycles(rules) :
            /\ pc = "rejected"
            /\ SelfRefIndices(rules) # {} => error.kind = "SelfReference"
            /\ (SelfRefIndices(rules) = {} /\ c[1] # <<>> /\ c[2] # <<>>) =>
                  /\ error.kind = "CircularRedirect"
                  /\ Len(error.offenders) = 1
                  /\ HasKey(rules, error.offenders[1])
                  /\ LeadsToCycle(rules, error.offenders[1])
                  /\ Len(rules) = 2 => error.offenders[1] \in {c[1], c[2]}

\* a 2-cycle has been reported under the name of a key outside it
C2_Witness ==
    /\ pc = "rejected"
    /\ error.kind = "CircularRedirect"
    /\ \E c \in TwoCycles(rules) : error.offenders[1] \notin {c[1], c[2]}

-----------------------------------------------------------------------------
(* C3 *)

\* C3: on a table with no self-referencing rule, once the circular-redirect
\* check has run, it has failed if and only if the graph on the keys (edge
\* s -> T[s] exactly when T[s] is a key) has a directed cycle; and a table
\* on which validate() has succeeded has no such cycle.
C3_CycleCheckIffCycle ==
    /\ (SelfRefIndices(rules) = {} /\
          pc \notin {"idle", "validateSelfReferences", "validateCircularRedirects"}) =>
            ((error.kind = "CircularRedirect") <=> HasCycle(rules))
    /\ (pc = "resolved" /\ ~isSsrBuild) => I2(rules)

-----------------------------------------------------------------------------
(* C4 *)

-----------------------------------------------------------------------------
(* C5 *)

\* C5: when validate() has completed without raising, every source starts
\* with "/", every destination starts with "/" or with "http", and no rule
\* has destination equal to its source.
C5_SuccessImpliesShape ==
    pc = "resolved" => (I1(rules) /\ I3(rules) /\ I4(rules))

\* validate() has succeeded on a table of two rules, one with an external
\* destination
C5_Witness ==
    /\ pc = "resolved"
    /\ Len(rules) = 2
    /\ \E i \in 1..2 : rules[i].destination = ExternalUrl
    /\ \E i \in 1..2 : StartsWith(rules[i].destination, Slash)

-----------------------------------------------------------------------------
(* C6 *)

\* the checks, numbered in the order of the claim, that the input violates
ViolatedChecks ==
    {k \in 1..6 :
        \/ k = 1 /\ Len(SelfRefs(rules)) > 0
        \/ k = 2 /\ Circular(rules).found
        \/ k = 3 /\ PathError(rules).kind # "none"
        \/ k = 5 /\ vitepressConfig = "config" /\ ~options.overrideExisting
                 /\ Len(Conflicts(rules, fs)) > 0
        \/ k = 6 /\ vitepressConfig = "config" /\ ~options.ignoreDeadLinks
                 /\ Len(DeadLinks(rules, fs)) > 0}

CheckOfKind(kind) ==
    CASE kind = "SelfReference"          -> 1
      [] kind = "CircularRedirect"       -> 2
      [] kind = "InvalidSourcePath"      -> 3
      [] kind = "InvalidDestinationPath" -> 3
      [] kind = "FileConflict"           -> 5
      [] kind = "DeadLink"               -> 6
      [] OTHER                           -> 0

Earliest(S) == CHOOSE k \in S : \A l \in S : k <= l

\* C6: once validate() has ended, it has succeeded if the input violates no
\* check, and otherwise the error is that of the earliest violated check in
\* the order self-reference, circular, path shape, delay, file conflicts,
\* dead links, and nothing of a later check has happened: no warning if the
\* failure precedes the delay advisory, no probe if it precedes the file
\* checks, no destination probe if it is the file-conflict error.
C6_EarliestCheckWins ==
    Terminal =>
        IF ViolatedChecks = {}
        THEN pc = "resolved" /\ error.kind = "none"
        ELSE /\ pc = "rejected"
             /\ CheckOfKind(error.kind) = Earliest(ViolatedChecks)
             /\ Earliest(ViolatedChecks) < 4 => warnings = 0
             /\ Earliest(ViolatedChecks) < 5 => probes = <<>>
             /\ Earliest(ViolatedChecks) = 5 =>
                   \A i \in 1..Len(probes) : probes[i].check = "source"

\* a table with both a file conflict and a dead link, neither check
\* switched off, has been rejected for the file conflict
C6_Witness ==
    /\ pc = "rejected"
    /\ error.kind = "FileConflict"
    /\ ~options.ignoreDeadLinks
    /\ Len(DeadLinks(rules, fs)) > 0
    /\ options.redirectDelay > 5
    /\ warnings = 1

-----------------------------------------------------------------------------
(* C7 *)

\* the table passes every check validate() makes with a site root
TableValid ==
    /\ I1(rules) /\ I2(rules) /\ I3(rules) /\ I4(rules)
    /\ options.overrideExisting \/ Len(Conflicts(rules, fs)) = 0
    /\ options.ignoreDeadLinks \/ Len(DeadLinks(rules, fs)) = 0

\* C7 as stated: generateBundle has written files only at a point where
\* the validation run by configResolved had completed without error.
C7_WritesOnlyAfterValidation ==
    generatedAt \subseteq {"resolved"}

\* C7 as amended: a failed validation makes configResolved reject, and
\* generateBundle, which consults isSsrBuild only, writes no file for that
\* build as long as the host does not invoke it after the rejection: every
\* generateBundle that has written files after a resolved configResolved
\* has written them for a table that passes all validation checks, and a
\* rejected configResolved always carries the error of a failed check.
C7_WritesAfterResolvedAreValidated ==
    /\ "resolved" \in generatedAt => TableValid
    /\ pc = "rejected" => (error.kind # "none" /\ ~TableValid)

\* generateBundle has written two files after configResolved resolved
C7_Witness ==
    /\ generatedAt = {"resolved"}
    /\ Cardinality(written) = 2
    /\ pc = "resolved"

-----------------------------------------------------------------------------
(* C8 *)

\* a destination without its query string and hash fragment
RECURSIVE StripQueryHash(_)
StripQueryHash(d) ==
    IF Len(d) = 0 \/ Head(d) \in {"?", "#"} THEN <<>>
    ELSE <<Head(d)>> \o StripQueryHash(Tail(d))

\* validateDeadLinks has run to its end
DeadLinksChecked ==
    /\ Terminal
    /\ vitepressConfig = "config"
    /\ ~options.ignoreDeadLinks
    /\ error.kind \in {"none", "DeadLink"}

\* the destinations the dead-link check has reported
ReportedDead ==
    IF error.kind = "DeadLink"
    THEN {error.offenders[k] : k \in 1..Len(error.offenders)}
    ELSE {}

\* C8: once the dead-link check has run, an internal destination has been
\* reported dead if and only if the destination without its query string
\* and hash fragment has no existing candidate file: "/a?q" and "/a#h" are
\* classified as "/a" is.
C8_QueryHashStripped ==
    DeadLinksChecked =>
        \A i \in 1..Len(rules) :
            LET d == rules[i].destination
            IN  ~StartsWith(d, Http) =>
                  ((d \in ReportedDead) <=> ~DestExists(fs, StripQueryHash(d)))

-----------------------------------------------------------------------------
(* C9 *)

\* C9: with overrideExisting set, validate() never fails with the
\* file-conflict error and never probes a candidate file of a source.
C9_OverrideExistingSkipsConflicts ==
    options.overrideExisting =>
        /\ error.kind # "FileConflict"
        /\ \A i \in 1..Len(probes) : probes[i].check # "source"

\* validate() has succeeded with overrideExisting set on a table one of
\* whose sources has an existing file
C9_Witness ==
    /\ options.overrideExisting
    /\ vitepressConfig = "config"
    /\ pc = "resolved"
    /\ \E i \in 1..Len(rules) :
          \E j \in 1..3 : PossibleFiles(rules[i].source)[j] \in fs

-----------------------------------------------------------------------------
(* C10 *)

\* C10: with ignoreDeadLinks set, validate() never fails with the
\* dead-link error.
C10_IgnoreDeadLinksSkipsDeadLinks ==
    options.ignoreDeadLinks => error.kind # "DeadLink"

\* validate() has succeeded with ignoreDeadLinks set on a table with an
\* internal destination for which no file exists
C10_Witness ==
    /\ options.ignoreDeadLinks
    /\ vitepressConfig = "config"
    /\ pc = "resolved"
    /\ \E i \in 1..Len(rules) :
          /\ StartsWith(rules[i].destination, Slash)
          /\ \A j \in 1..Len(PossibleDestFiles(rules[i].destination)) :
                PossibleDestFiles(rules[i].destination)[j] \notin fs


-----------------------------------------------------------------------------
(* C11 *)

\* C11: a validator constructed without a host configuration never runs the
\* file-conflict check or the dead-link check: it issues no probe, never
\* fails with either error, and once validate() has ended on a table that
\* satisfies the self-reference, cycle and path-shape conditions it has
\* succeeded, whatever files exist.
C11_NoConfigNoFileChecks ==
    vitepressConfig = "undefined" =>
        /\ probes = <<>>
        /\ pc \notin {"validateFileConflicts", "validateDeadLinks"}
        /\ error.kind \notin {"FileConflict", "DeadLink"}
        /\ (Terminal /\ I1(rules) /\ I2(rules) /\ I3(rules) /\ I4(rules))
              => pc = "resolved"

\* validate() has succeeded without a host configuration on a table one of
\* whose sources has an existing file and one of whose internal destinations
\* has none
C11_Witness ==
    /\ vitepressConfig = "undefined"
    /\ pc = "resolved"
    /\ \E i \in 1..Len(rules) :
          \E j \in 1..3 : PossibleFiles(rules[i].source)[j] \in fs
    /\ \E i \in 1..Len(rules) :
          /\ StartsWith(rules[i].destination, Slash)
          /\ \A j \in 1..Len(PossibleDestFiles(rules[i].destination)) :
                PossibleDestFiles(rules[i].destination)[j] \notin fs

-----------------------------------------------------------------------------
(* C12 *)

\* the candidate files of source p, relative to the root: p.md, p/index.md
\* and p.html without the leading "/" of p
CandidatesOfSource(p) ==
    LET q == StripLeadingSlash(p)
    IN  { q \o <<".md">>, q \o <<"/", "index.md">>, q \o <<".html">> }

\* the (source, existing candidate file) pairs of a table
ConflictPairs(T, files) ==
    UNION { { <<T[i].source, f>> : f \in CandidatesOfSource(T[i].source) \cap files }
            : i \in 1..Len(T) }

\* validateFileConflicts has run to its end
FileConflictsChecked ==
    /\ Terminal
    /\ vitepressConfig = "config"
    /\ ~options.overrideExisting
    /\ error.kind \in {"none", "FileConflict", "DeadLink"}

\* C12: once validate() has ended with a host configuration, overrideExisting
\* false and the first three checks passed, it has failed with the
\* file-conflict error if and only if a candidate file p.md, p/index.md or
\* p.html of some source p exists; every candidate of every source has been
\* probed, and the error has exactly one entry per pair of a source and an
\* existing candidate file of it, naming that file.
C12_FileConflictIffAndListsAll ==
    FileConflictsChecked =>
        /\ (error.kind = "FileConflict") <=> (ConflictPairs(rules, fs) # {})
        /\ \A i \in 1..Len(rules) :
              \A f \in CandidatesOfSource(rules[i].source) :
                 \E k \in 1..Len(probes) :
                    probes[k] = [check |-> "source", filePath |-> f]
        /\ error.kind = "FileConflict" =>
              /\ pc = "rejected"
              /\ Len(error.offenders) = Cardinality(ConflictPairs(rules, fs))
              /\ { <<error.offenders[k].source, error.offenders[k].filePath>> :
                     k \in 1..Len(error.offenders) } = ConflictPairs(rules, fs)

\* validate() has failed with a file-conflict error of three entries, two
\* for one source and one for another
C12_Witness ==
    /\ pc = "rejected"
    /\ error.kind = "FileConflict"
    /\ Len(error.offenders) = 3
    /\ \E k, l \in 1..3 :
          /\ error.offenders[k].source = error.offenders[l].source
          /\ error.offenders[k].filePath # error.offenders[l].filePath
    /\ \E k, l \in 1..3 :
          error.offenders[k].source # error.offenders[l].source

-----------------------------------------------------------------------------
(* C13 *)

\* the destinations of a table that do not start with "http" and for which
\* no candidate file exists, the candidates being those of the destination
\* without its query string and hash fragment
DeadDestinations(T, files) ==
    { T[i].destination : i \in
        { j \in 1..Len(T) :
            /\ ~StartsWith(T[j].destination, Http)
            /\ ~DestExists(files, StripQueryHash(T[j].destination)) } }

\* C13: once validate() has ended with a host configuration, ignoreDeadLinks
\* false and all earlier checks passed, it has failed with the dead-link
\* error if and only if some destination not starting with "http" has no
\* existing candidate file; the error lists exactly those destinations, and
\* no candidate file of a destination starting with "http" has been probed.
C13_DeadLinkIffAndListsAll ==
    DeadLinksChecked =>
        /\ (error.kind = "DeadLink") <=> (DeadDestinations(rules, fs) # {})
        /\ ReportedDead = DeadDestinations(rules, fs)
        /\ \A i \in 1..Len(rules) :
              StartsWith(rules[i].destination, Http) =>
                 \A k \in 1..Len(probes) :
                    probes[k].check = "destination" =>
                       \A j \in 1..Len(PossibleDestFiles(rules[i].destination)) :
                          probes[k].filePath
                             # PossibleDestFiles(rules[i].destination)[j]

-----------------------------------------------------------------------------
(* C14 *)

\* configResolved or generateBundle has been called and build.ssr is true /
\* false after it
SsrHookStep == hookCalls' = hookCalls + 1 /\ pages' = pages /\ isSsrBuild'
NonSsrHookStep == hookCalls' = hookCalls + 1 /\ pages' = pages /\ ~isSsrBuild'

\* C14: a hook call made while build.ssr is true runs no check and writes
\* no file: configResolved succeeds at once, whatever the table, and
\* generateBundle leaves the output untouched. A hook call made while
\* build.ssr is false either starts the validation from its first check
\* (configResolved) or writes a file for every rule (generateBundle).
C14_SsrSkipsValidationAndGeneration ==
    [][ /\ SsrHookStep =>
              /\ pc' = "resolved"
              /\ UNCHANGED <<error, probes, warnings, written>>
        /\ NonSsrHookStep =>
              \/ /\ pc' = "validateSelfReferences"
                 /\ error' = NoError
                 /\ probes' = <<>>
                 /\ written' = written
              \/ /\ pc' = pc
                 /\ UNCHANGED <<error, probes, warnings>>
                 /\ written \subseteq written'
                 /\ \A i \in 1..Len(rules) :
                       \E w \in written' :
                          /\ w.source = rules[i].source
                          /\ w.destination = rules[i].destination
      ]_vars

\* after configResolved with build.ssr true and one more hook call, the
\* hooks have succeeded on a table with a self-referencing rule and with a
\* source whose file exists, and nothing has been written
C14_Witness ==
    /\ isSsrBuild
    /\ hookCalls = 2
    /\ pc = "resolved"
    /\ error = NoError
    /\ written = {}
    /\ ~I1(rules)
    /\ \E i \in 1..Len(rules) :
          \E j \in 1..3 : PossibleFiles(rules[i].source)[j] \in fs

-----------------------------------------------------------------------------
(* C15 *)

\* C15: no output file is written by the callbacks of two different rules:
\* the writes of one generateAllRedirectFiles run go to pairwise distinct
\* paths.
C15_DistinctOutputPaths ==
    \A k, l \in 1..Len(writes) :
        writes[k].filePath = writes[l].filePath => writes[k].task = writes[l].task

-----------------------------------------------------------------------------
(* C16 *)

\* the callbacks whose resolveTemplate() call has returned
Resolved == {i \in 1..Len(tasks) : tasks[i].pc \in {"resolved", "mkdir", "writeFile", "done"}}

\* C16: during one generateAllRedirectFiles run the template source is
\* loaded at most once, by file read or inline detection, and every
\* resolveTemplate() call returns the same template string.
C16_TemplateLoadedAtMostOnce ==
    /\ Len(loads) <= 1
    /\ \A i, j \in Resolved : tasks[i].template = tasks[j].template

-----------------------------------------------------------------------------
(* C17 *)

\* the page of rule i of table T rendered from the template the run resolved
RenderedPage(T, i) ==
    GenerateRedirectPage(T[i].source, T[i].destination,
                         OrDefault(cachedTemplate), options)

\* C17: once generateAllRedirectFiles has returned, the output holds for
\* every source s the file sanitized(s)/index.html with the rendered page of
\* (s, T[s]) as its content, and no other file; for the empty table it
\* holds no file and no directory has been created.
C17_OneRenderedFilePerSource ==
    genPc = "returned" =>
        /\ \A i \in 1..Len(rules) :
              [filePath |-> SanitizePath(rules[i].source) \o <<"/", "index.html">>,
               content |-> RenderedPage(rules, i)] \in outFiles
        /\ \A f \in outFiles :
              \E i \in 1..Len(rules) :
                 f.filePath = SanitizePath(rules[i].source) \o <<"/", "index.html">>
        /\ Len(rules) = 0 => outFiles = {} /\ dirs = {}

-----------------------------------------------------------------------------
(* C18 *)

\* the template option names a file and no such file can be read
TemplateReadFails ==
    /\ options.template # Empty
    /\ ~Includes(options.template, "<html")
    /\ ~Includes(options.template, "<!DOCTYPE")
    /\ \A f \in disk :
          /\ f.path # options.template
          /\ f.path # (IF vitepressConfig = "config" THEN SrcDir ELSE Cwd)
                         \o <<"/">> \o options.template

\* C18: resolveTemplate() never fails, so that no callback fails and
\* generateAllRedirectFiles never rejects; when the template option is a
\* file path whose read fails, every call returns the built-in default
\* template and that is what is cached.
C18_ReadFailureFallsBackToDefault ==
    /\ \A i \in 1..Len(tasks) : tasks[i].pc # "failed"
    /\ genPc # "rejected"
    /\ TemplateReadFails =>
          /\ \A i \in Resolved : tasks[i].template = DefaultTemplate
          /\ cachedTemplate \in {{}, {DefaultTemplate}}
          /\ Resolved # {} => cachedTemplate = {DefaultTemplate}

\* generateAllRedirectFiles has returned with a page written from the
\* default template although the template option names a file that cannot
\* be read
C18_Witness ==
    /\ TemplateReadFails
    /\ genPc = "returned"
    /\ Len(loads) > 0
    /\ \E f \in outFiles : f.content[1] = DefaultTemplate[1]

-----------------------------------------------------------------------------
(* C19 *)

\* the file a template option that is not inline markup stands for
TemplateFileOf(option) ==
    IF Head(option) = "/" THEN option
    ELSE (IF vitepressConfig = "config" THEN SrcDir ELSE Cwd) \o <<"/">> \o option

\* C19: a resolveTemplate() call returns the option itself, with no file
\* read, when the option is non-empty and contains "<html" or "<!DOCTYPE";
\* otherwise, for a non-empty option, the file of that name is read, the
\* name of a relative path being resolved against the site source root (the
\* working directory without a host configuration), and the call returns
\* its content, or the default when the read fails or gives an empty
\* string; for an empty option it returns the built-in default and
\* loadTemplate is not called.
C19_TemplateSourcePriority ==
    LET option == options.template
        inline == option # Empty /\ (Includes(option, "<html")
                                      \/ Includes(option, "<!DOCTYPE"))
    IN  /\ inline =>
              /\ \A i \in Resolved : tasks[i].template = option
              /\ \A k \in 1..Len(loads) : loads[k].read = {}
        /\ option = Empty =>
              /\ \A i \in Resolved : tasks[i].template = DefaultTemplate
              /\ loads = <<>>
        /\ (option # Empty /\ ~inline) =>
              /\ \A k \in 1..Len(loads) : loads[k].read = {TemplateFileOf(option)}
              /\ Resolved # {} => Len(loads) > 0
              /\ \A i \in Resolved :
                    \/ [path |-> TemplateFileOf(option), data |-> tasks[i].template]
                          \in disk
                    \/ /\ tasks[i].template = DefaultTemplate
                       /\ \A f \in disk :
                             f.path = TemplateFileOf(option) => f.data = Empty

\* with a host configuration and a relative file name as the option, a
\* resolveTemplate() call has returned the content of that file under the
\* site source root, a file of the same name existing in the working
\* directory too
C19_Witness ==
    /\ options.template = RelativeTemplatePath
    /\ vitepressConfig = "config"
    /\ [path |-> Cwd \o <<"/">> \o RelativeTemplatePath, data |-> CwdFile] \in disk
    /\ \E i \in Resolved : tasks[i].template = SrcDirFile

-----------------------------------------------------------------------------
(* C20 *)

\* template with every placeholder piece replaced by the value supplied for
\* it and every other piece kept
RECURSIVE Substituted(_, _, _, _, _)
Substituted(template, source, destination, metaTags, delay) ==
    IF Len(template) = 0 THEN <<>>
    ELSE (CASE Head(template) = "{source}"        -> source
            [] Head(template) = "{destination}"   -> destination
            [] Head(template) = "{redirectDelay}" -> NumberToString(delay)
            [] Head(template) = "{metaTags}"      -> metaTags
            [] OTHER                              -> <<Head(template)>>)
         \o Substituted(Tail(template), source, destination, metaTags, delay)

\* C20: the html processTemplate returns for a rule is the template with
\* every occurrence of {source}, {destination}, {redirectDelay} and
\* {metaTags} replaced by exactly the value supplied for it, the text of the
\* values inserted unchanged.
C20_LiteralSubstitution ==
    \A i \in 1..Len(tasks) :
        tasks[i].pc \in {"mkdir", "writeFile", "done"} =>
            tasks[i].html =
                Substituted(tasks[i].template, rules[i].source,
                            rules[i].destination,
                            CreateMetaTags(rules[i].destination,
                                           options.redirectDelay, options),
                            options.redirectDelay)
-----------------------------------------------------------------------------
(* C21 *)

\* the defaults as the specification lists them
ListedDefaults ==
    [enable |-> {{TRUE}},
     addCanonical |-> {{FALSE}},
     addNoIndexMeta |-> {{FALSE}},
     redirectDelay |-> {{0}},
     template |-> {{<<>>}},
     overrideExisting |-> {{FALSE}},
     ignoreDeadLinks |-> {{FALSE}}]

\* the rules mapping of a config, whichever form it has
GivenRules(c) == IF c.rules = {} THEN c.entries ELSE CHOOSE T \in c.rules : TRUE

\* the value the user supplied for a flag: {} when they supplied none
GivenValue(c, f) ==
    IF c.options = {} THEN {}
    ELSE LET o == CHOOSE o \in c.options : TRUE
         IN  IF o[f] = {{}} THEN {} ELSE o[f]

\* C21: normalizeConfig returns the rules mapping unchanged for both input
\* forms, and options in which every recognized flag has a value: the
\* user-supplied one where given, otherwise the listed default.
C21_NormalizedRulesAndOptions ==
    \A n \in normalized :
        /\ n.rules = GivenRules(redirectConfig)
        /\ \A f \in Flags :
              n.options[f] = IF GivenValue(redirectConfig, f) # {}
                             THEN GivenValue(redirectConfig, f)
                             ELSE ListedDefaults[f]

-----------------------------------------------------------------------------
(* C22 *)

\* C22: when options.enable is false, every page handed to
\* transformIndexHtml comes back unchanged, and the plugin has no other
\* hook: every hook call made is a transformIndexHtml call, no check has
\* run, no existence probe was made, no warning logged, no file written.
C22_DisabledPluginDoesNothing ==
    ~options.enable =>
        /\ \A i \in 1..Len(pages) : pages[i].result = pages[i].html
        /\ hookCalls = Len(pages)
        /\ pc = "idle"
        /\ error = NoError
        /\ probes = <<>>
        /\ warnings = 0
        /\ written = {}

\* the disabled plugin, with a table of rules, has been handed two pages,
\* one of them with a head element
C22_Witness ==
    /\ ~options.enable
    /\ Len(rules) > 0
    /\ Len(pages) >= 2
    /\ \E i \in 1..Len(pages) : Includes(pages[i].html, "<head>")

-----------------------------------------------------------------------------
(* C23 *)

\* validateDelay has run: validate() is past it, or has thrown in a later
\* check
DelayCheckReached ==
    \/ pc \in {"validateFileConflicts", "validateDeadLinks", "resolved"}
    \/ pc = "rejected" /\ error.kind \in {"FileConflict", "DeadLink"}

\* the error validate() ends with, as a function of the table, the site
\* root, the presence of a config and the two skip flags: the delay is no
\* argument of it
OutcomeWithoutDelay(T, files, cfg, override, ignore) ==
    IF Len(SelfRefs(T)) > 0
    THEN [kind |-> "SelfReference", offenders |-> SelfRefs(T)]
    ELSE IF Circular(T).found
    THEN [kind |-> "CircularRedirect", offenders |-> <<Circular(T).source>>]
    ELSE IF PathError(T).kind # "none" THEN PathError(T)
    ELSE IF cfg # "config" THEN NoError
    ELSE IF ~override /\ Len(Conflicts(T, files)) > 0
    THEN [kind |-> "FileConflict", offenders |-> Conflicts(T, files)]
    ELSE IF ~ignore /\ Len(DeadLinks(T, files)) > 0
    THEN [kind |-> "DeadLink", offenders |-> DeadLinks(T, files)]
    ELSE NoError

\* C23: the delay advisory is never a failure. One warning has been logged
\* exactly when the delay check has been reached with redirectDelay > 5 (so
\* none for a delay of 5), and the outcome of validate() is the one the
\* table, the site root and the other options determine, whatever the delay.
C23_DelayWarnsNeverFails ==
    /\ warnings = IF DelayCheckReached /\ options.redirectDelay > 5 THEN 1 ELSE 0
    /\ Terminal =>
          /\ error = OutcomeWithoutDelay(rules, fs, vitepressConfig,
                                         options.overrideExisting,
                                         options.ignoreDeadLinks)
          /\ (pc = "resolved") = (error = NoError)

\* validate() has succeeded with a delay of 6 after one warning
C23_Witness == pc = "resolved" /\ options.redirectDelay = 6 /\ warnings = 1

-----------------------------------------------------------------------------
(* C24 *)

\* C24: no step of validate(), on a path that succeeds or on one that
\* fails, changes the redirect table or the options it was given.
C24_ValidateLeavesInputsAlone ==
    [][rules' = rules /\ options' = options]_vars

\* validate() has run through every check, the delay warning included, and
\* has failed in the last one
C24_Witness ==
    /\ pc = "rejected"
    /\ error.kind = "DeadLink"
    /\ warnings = 1
    /\ Len(probes) > 0

-----------------------------------------------------------------------------
(* C25 *)

\* r is p without i slashes at its start and j slashes at its end, every
\* piece between them kept in place
CutsSlashes(p, r, i, j) ==
    /\ i + j <= Len(p)
    /\ \A k \in 1..i : p[k] = "/"
    /\ \A k \in (Len(p) - j + 1)..Len(p) : p[k] = "/"
    /\ r = SubSeq(p, i + 1, Len(p) - j)

\* C25: sanitizePath removes leading and trailing "/" only, all of them,
\* and keeps every piece in between, inner slashes included; its result
\* neither begins nor ends with "/", and sanitizing it again changes nothing.
C25_SanitizePathTrimsSlashes ==
    \A r \in sanitized :
        /\ \E i, j \in 0..Len(rawPath) : CutsSlashes(rawPath, r, i, j)
        /\ Len(r) > 0 => r[1] # "/" /\ r[Len(r)] # "/"
        /\ SanitizePath(r) = r

\* sanitizePath has returned for a string with two slashes or more at each
\* end and one inside
C25_Witness ==
    /\ Len(rawPath) = 7
    /\ rawPath[1] = "/" /\ rawPath[2] = "/"
    /\ rawPath[6] = "/" /\ rawPath[7] = "/"
    /\ \E r \in sanitized : Len(r) = 3 /\ r[2] = "/"

-----------------------------------------------------------------------------
(* C26 *)

\* the keys met when following the redirects from key n for up to k steps
RECURSIVE Chain(_, _, _)
Chain(T, n, k) ==
    IF k = 0 \/ ~HasKey(T, Get(T, n)) THEN {n}
    ELSE {n} \cup Chain(T, Get(T, n), k - 1)

\* the first rule, in table order, whose source leads into a cycle
FirstIntoCycle(T) ==
    CHOOSE i \in 1..Len(T) :
        /\ LeadsToCycle(T, T[i].source)
        /\ \A j \in 1..(i - 1) : ~LeadsToCycle(T, T[j].source)

\* the cycle check has run
CycleCheckDone ==
    pc \notin {"idle", "validateSelfReferences", "validateCircularRedirects"}

\* C26: on a table with a cycle and no self-referencing rule the cycle check
\* raises one error naming one source, the first key in table order whose
\* redirect chain reaches a cycle; the traversal has entered no key beyond
\* the chains of the keys up to that one, each at most once.
C26_FirstKeyIntoCycleNamed ==
    (CycleCheckDone /\ SelfRefIndices(rules) = {} /\ HasCycle(rules)) =>
        LET first == FirstIntoCycle(rules)
            entered == Circular(rules).entered
        IN  /\ error.kind = "CircularRedirect"
            /\ error.offenders = <<rules[first].source>>
            /\ \A e \in 1..Len(entered) :
                  \E j \in 1..first :
                     entered[e] \in Chain(rules, rules[j].source, Len(rules))
            /\ \A e, f \in 1..Len(entered) : entered[e] = entered[f] => e = f

-----------------------------------------------------------------------------
(* C27 *)

\* validatePaths has run: validate() is past it, or has thrown in it or in
\* a later check
PathCheckDone ==
    /\ pc \notin {"idle", "validateSelfReferences", "validateCircularRedirects",
                  "validatePaths"}
    /\ error.kind \notin {"SelfReference", "CircularRedirect"}

\* the rules whose source lacks the leading "/", and those whose destination
\* starts with neither "/" nor "http"
BadSourceIndices(T) == {i \in 1..Len(T) : ~StartsWith(T[i].source, Slash)}
BadDestinationIndices(T) ==
    {i \in 1..Len(T) : ~StartsWith(T[i].destination, Slash)
                       /\ ~StartsWith(T[i].destination, Http)}

\* the least element of a non-empty set of rule positions
FirstOf(S) == CHOOSE i \in S : \A j \in S : i <= j

\* C27: once the path-shape check has run, it has reported one offender
\* only, sources before destinations: with a source lacking the leading "/"
\* the error names the first such source in key order, whatever the
\* destinations of the rules before it; otherwise, with a destination that
\* starts with neither "/" nor "http", it names the first such destination
\* in table order.
C27_FirstSourceThenFirstDestination ==
    PathCheckDone =>
        /\ BadSourceIndices(rules) # {} =>
              /\ error.kind = "InvalidSourcePath"
              /\ error.offenders = <<rules[FirstOf(BadSourceIndices(rules))].source>>
        /\ (BadSourceIndices(rules) = {} /\ BadDestinationIndices(rules) # {}) =>
              /\ error.kind = "InvalidDestinationPath"
              /\ error.offenders =
                    <<rules[FirstOf(BadDestinationIndices(rules))].destination>>

\* a table whose first rule has a destination of a wrong shape and whose two
\* sources both lack the leading "/" has been rejected for the first source
C27_Witness ==
    /\ PathCheckDone
    /\ Len(rules) = 2
    /\ BadSourceIndices(rules) = {1, 2}
    /\ 1 \in BadDestinationIndices(rules)
    /\ error.kind = "InvalidSourcePath"

-----------------------------------------------------------------------------
(* C28 *)

\* the probes did not complete in the order of their dispatch
OutOfOrder == \E k \in 1..Len(completion) : completion[k] # k

\* C28: whatever the order in which the existence probes complete, the
\* file-conflict and dead-link errors are the ones the table, the site root
\* and the options determine, offenders in item order, and such an error
\* is raised only once every probe of its check has completed.
C28_ProbeOrderDoesNotMatter ==
    /\ error.kind \in {"FileConflict", "DeadLink"} =>
          /\ AllSettled
          /\ Len(completion) = Len(inflight)
    /\ Terminal =>
          error = OutcomeWithoutDelay(rules, fs, vitepressConfig,
                                      options.overrideExisting,
                                      options.ignoreDeadLinks)

\* two conflicts have been reported after the probes completed out of order,
\* the probe of the second conflict before the probe of the first
C28_Witness ==
    /\ pc = "rejected"
    /\ error.kind = "FileConflict"
    /\ Len(error.offenders) >= 2
    /\ \E k, l \in 1..Len(completion) :
          /\ k < l
          /\ completion[k] > completion[l]
          /\ inflight[completion[k]].exists
          /\ inflight[completion[l]].exists

-----------------------------------------------------------------------------
(* C29 *)

\* C29: on the same table, options and unchanging site root, the validator
\* that probes concurrently and the sequential one end alike: both succeed,
\* or both raise the same error with the same offenders in the same order.
C29_SequentialAndConcurrentAgree ==
    (SeqTerminal /\ Terminal) =>
        /\ (seqPc = "resolved") = (pc = "resolved")
        /\ seqError = error

\* both validators have reported the same dead links, the sequential one
\* after fewer probes than the concurrent one, having stopped at the first
\* existing candidate of another destination
C29_Witness ==
    /\ SeqTerminal
    /\ Terminal
    /\ error.kind = "DeadLink"
    /\ seqError = error
    /\ Len(rules) = 2
    /\ Len(error.offenders) = 1
    /\ Len(seqProbes) < Len(probes)

-----------------------------------------------------------------------------
(* C30 *)

\* the keys the traversal of validateCircularRedirects has entered, in order
Entered(T) == Circular(T).entered

\* C30: cycle detection ends on every table, and once it has run the
\* depth-first traversal has entered keys of the table only, each at most
\* once, so that it made no more steps than the table has keys.
C30_EachKeyEnteredAtMostOnce ==
    (CycleCheckDone /\ error.kind # "SelfReference") =>
        LET entered == Entered(rules)
        IN  /\ \A e \in 1..Len(entered) : HasKey(rules, entered[e])
            /\ \A e, f \in 1..Len(entered) : entered[e] = entered[f] => e = f
            /\ Len(entered) <= Len(rules)

\* the cycle check has passed on a chain of three rules: the second and the
\* third key were reached from the first and then met again by the loop,
\* and three keys have been entered
C30_Witness ==
    /\ CycleCheckDone
    /\ error.kind \notin {"SelfReference", "CircularRedirect"}
    /\ Len(rules) = 3
    /\ rules[1].destination = rules[2].source
    /\ rules[2].destination = rules[3].source
    /\ rules[1].source # <<>> /\ rules[2].source # <<>> /\ rules[3].source # <<>>
    /\ Len(Entered(rules)) = 3

====
